---- MODULE Spec2Model ----
(***************************************************************************)
(* Agent Orchestration Core of octopus-hybrid-agent.                       *)
(*                                                                         *)
(* The model follows octopus/core/session.py: the session state machine    *)
(* (OctopusSession.process_user_input / _process_impl), the mode-aware     *)
(* tool filter (_get_tools_for_mode) and the Developer/Reviewer loop       *)
(* (_run_sub_agent_loop).  The turn driver is a Python generator; every    *)
(* action below is one stretch of that generator from one group of yields  *)
(* to the next, followed by the abort check that process_user_input makes  *)
(* after each event it hands to the consumer.                              *)
(*                                                                         *)
(* Text is a sequence of tokens (words or phrases); lower(), upper() and   *)
(* strip() are tables over the tokens the model uses, and "p in text" is   *)
(* membership of the token p.                                              *)
(*                                                                         *)
(* Spec is the session over a few turns, LiveSpec the same with a turn     *)
(* under way always resumed, SpecTools one application of the tool filter  *)
(* and SpecPrune one application of _prune_history and one more to its     *)
(* result.  SpecGateway is one call of ProviderManager.chat_complete up to *)
(* the request it sends, SpecStream one streamed answer on its way from    *)
(* ProviderManager.chat_complete_stream through the loops of the session   *)
(* to the consumer, and SpecTransport one JSONRPCClient (mcp/protocol.py)  *)
(* with its tool server and two threads that call it.                      *)
(***************************************************************************)
EXTENDS Integers, Sequences, FiniteSets, TLC

(***************************************************************************)
(* Bounds of the model.                                                    *)
(***************************************************************************)
MaxTurns == 3        \* user inputs per run
MaxWork == 2         \* answers of the orchestrating model per run
MaxSubWork == 4      \* answers of the Developer and Reviewer models per run
MaxRetryWork == 7    \* the same, in a run whose Reviewer never approves
MaxIterWork == 6     \* the same, in a run whose Developer keeps calling tools
MaxDelegWork == 6    \* answers of the orchestrating model in a run of delegations
MaxRoundWork == 16   \* the same, in a run of tool call after tool call
MaxFailWork == 4     \* calls of the Gateway in a run of provider failures
MaxAskWork == 3      \* answers of the orchestrating model in a run of questions
MaxOld == 3          \* messages of a history to prune before its tail
MaxMsgs == 3         \* messages passed to one call of the Gateway
MaxDeltas == 4       \* deltas a provider splits a streamed answer into
MaxCalls == 2        \* calls of one thread on a Transport
MaxNotes == 2        \* notifications a tool server writes

(***************************************************************************)
(* Program constants.                                                      *)
(***************************************************************************)
MaxRounds == 15                  \* for _ in range(15)
max_ask_user_per_task == 2
max_delegations_per_role == 3
max_retries == 3
dev_loop_max == 5
PostApprovalAskLimit == 3        \* if self.post_approval_ask_count >= 3
keep_last_n == 6                 \* _prune_history(self, history, keep_last_n=6)
TruncateOver == 500              \* if len(content) > 500
TruncateKeep == 200              \* content[:200], content[-200:]

NoId == "none"                   \* waiting_tool_id = None
NoContext == "none"              \* question_context = None

READ_ONLY_TOOLS == {"list_directory", "read_file", "glob", "search_file_content"}
WRITE_TOOLS == {"write_file", "run_shell_command"}
CONTROL_TOOLS == {"delegate_task", "ask_user", "request_admin_privileges"}
AllTools == READ_ONLY_TOOLS \cup WRITE_TOOLS \cup CONTROL_TOOLS

\* SessionMode
PLAN == "plan"
EXECUTE == "execute"
REVIEW == "review"
SessionMode == {PLAN, EXECUTE, REVIEW}

Roles == {"architect", "developer"}

(***************************************************************************)
(* Text.                                                                   *)
(***************************************************************************)
\* str.lower() on the tokens of the model
Lower(t) ==
    CASE t = " Yes " -> " yes "
      [] t = " Sure " -> " sure "
      [] t = "Yes" -> "yes"
      [] t = "Sure" -> "sure"
      [] t = "Shall I proceed" -> "shall i proceed"
      [] t = "APPROVED" -> "approved"
      [] t = "Approved" -> "approved"
      [] t = "Not" -> "not"
      [] t = "Hello World" -> "hello world"
      [] OTHER -> t

\* str.upper() on the tokens of the model
Upper(t) ==
    CASE t = "Approved" -> "APPROVED"
      [] t = "approved" -> "APPROVED"
      [] t = "Not" -> "NOT"
      [] t = "needs" -> "NEEDS"
      [] t = "work" -> "WORK"
      [] OTHER -> t

\* str.strip() on the tokens of the model
Strip(t) ==
    CASE t = " yes " -> "yes"
      [] t = " Yes " -> "Yes"
      [] t = " sure " -> "sure"
      [] t = " Sure " -> "Sure"
      [] OTHER -> t

\* user_input.strip().lower()
StripLower(t) == Lower(Strip(t))

\* "p in text" for a pattern p that is one token long
Contains(text, p) == \E i \in 1..Len(text) : text[i] = p

LowerText(text) == [i \in 1..Len(text) |-> Lower(text[i])]
UpperText(text) == [i \in 1..Len(text) |-> Upper(text[i])]

\* the user inputs of the model; the last one is longer than 10 characters
UserInputs == {" Yes ", " Sure ", "refactor the parser"}
LongInput(t) == t = "refactor the parser"        \* len(user_input) > 10

(***************************************************************************)
(* Messages, tool calls and events.                                        *)
(***************************************************************************)
Msg(r, c, tcs, id, n) ==
    [role |-> r, content |-> c, tool_calls |-> tcs, tool_call_id |-> id, name |-> n]
SystemMsg(c) == Msg("system", c, <<>>, NoId, "")
UserMsg(c) == Msg("user", c, <<>>, NoId, "")
AssistantMsg(c, tcs) == Msg("assistant", c, tcs, NoId, "")
ToolMsg(id, n, c) == Msg("tool", c, <<>>, id, n)

ToolCall(id, n, reason) == [id |-> id, name |-> n, reason |-> reason]
NoMessage == AssistantMsg(<<>>, <<>>)

SessionEvent(t, tag) == [type |-> t, tag |-> tag]
CancelEvent == SessionEvent("error", "Operation Cancelled by User.")
NoEvent == SessionEvent("none", "")

\* types.TaskResult
TaskResult(st, summary, ver) == [status |-> st, summary |-> summary, verification_result |-> ver]
NoResult == TaskResult("none", <<>>, <<>>)

\* a call handed to a Transport (tools_map[fn_name].call_tool) or to the
\* Delegation Engine (_run_sub_agent_loop): who dispatched it (the turn driver
\* or the Developer sub-loop), the acting role and the mode
Invocation(target, n, by, r, m) ==
    [target |-> target, name |-> n, by |-> by, role |-> r, mode |-> m]
NoCall == Invocation("none", "", "", "", "")

(***************************************************************************)
(* Tool catalogue and the mode filter.                                     *)
(***************************************************************************)
\* the tools the tool server lists; tools_map holds every one of them
ServerTools == READ_ONLY_TOOLS \cup WRITE_TOOLS

\* OctopusSession._filter_tools_by_role
FilterToolsByRole(all_tools, allowed_tools) ==
    IF allowed_tools = {} THEN {} ELSE {t \in all_tools : t \in allowed_tools}

\* OctopusSession._refresh_dynamic_tools
RefreshDynamicTools(base_tools, all_roles, me, sudo, allowed_tools) ==
    LET available_roles == all_roles \ {me}
        dynamic_tools ==
            (IF available_roles # {} THEN {"delegate_task"} ELSE {})
            \cup {"ask_user"}
            \cup (IF sudo # {} THEN {"request_admin_privileges"} ELSE {})
    IN  FilterToolsByRole(base_tools \cup dynamic_tools, allowed_tools)

\* faulty variant of GetToolsForMode: EXECUTE treats every role alike
GetToolsForModeAnyRole(mode, me, tools) ==
    IF mode = PLAN
    THEN {t \in tools : t \in READ_ONLY_TOOLS \/ t = "ask_user"}
    ELSE IF mode = EXECUTE
    THEN {t \in tools : t # "ask_user"}
    ELSE IF mode = REVIEW
    THEN {t \in tools : t \in READ_ONLY_TOOLS}
    ELSE tools

\* OctopusSession._get_tools_for_mode
GetToolsForMode(mode, me, tools) ==
    IF mode = PLAN
    THEN {t \in tools : t \in READ_ONLY_TOOLS \/ t = "ask_user"}
    ELSE IF mode = EXECUTE
    THEN IF me = "architect"
         THEN LET allowed_for_architect == READ_ONLY_TOOLS \cup {"delegate_task"}
              IN  {t \in tools : t \in allowed_for_architect}
         ELSE {t \in tools : t # "ask_user"}
    ELSE IF mode = REVIEW
    THEN {t \in tools : t \in READ_ONLY_TOOLS}
    ELSE tools

(***************************************************************************)
(* Approval words and interrogative phrases.                               *)
(***************************************************************************)
\* approval_responses of the resume-after-ask_user branch
approval_responses_answer ==
    {"yes", "tak", "ok", "proceed", "go", "start", "approve", "approved", "y"}
\* approval_responses of the new-input branch (text-based question)
approval_responses_text ==
    approval_responses_answer \cup {"sure", "please", "prosze"}

question_patterns ==
    {"would you like to proceed", "shall i proceed", "do you want me to",
     "should i continue", "can i proceed", "proceed with this plan",
     "approve this plan", "is this ok", "is that ok",
     "czy moge kontynuowac", "czy kontynuowac", "czy zatwierdzasz", "czy chcesz"}

\* detected_pattern is not None
DetectedPattern(content) ==
    \E p \in question_patterns : Contains(LowerText(content), p)

(***************************************************************************)
(* Providers.                                                              *)
(***************************************************************************)
\* config.providers, in dictionary order
ProviderOrder == <<"openai", "anthropic", "ollama_local">>
NoProvider == "none"
ProviderType(p) == IF p = "ollama_local" THEN "ollama" ELSE p
RoleProvider(r) == IF r = "architect" THEN "anthropic" ELSE "ollama_local"

\* RoleConfig.model_id and ProviderConfig.default_model
RoleModel(r) ==
    IF r = "architect" THEN "claude-3-5-sonnet-20241022" ELSE "qwen2.5-coder:latest"
DefaultModel(p) ==
    CASE p = "openai" -> "gpt-4o"
      [] p = "anthropic" -> "claude-3-5-sonnet-20241022"
      [] p = "ollama_local" -> "qwen2.5-coder:latest"

\* a call of the Gateway: chat_complete or chat_complete_stream with
\* self.active_provider and self.active_model_id, whether it raised, and the
\* providers whose calls raised earlier in the round
GatewayCall(p, m, failed, earlier) ==
    [provider |-> p, model_id |-> m, failed |-> failed, earlier |-> earlier]
NoGatewayCall == GatewayCall(NoProvider, "", FALSE, {})
FailedSoFar(call) ==
    call.earlier \cup (IF call.failed THEN {call.provider} ELSE {})

\* faulty variant of AddTried: the providers tried before are forgotten
AddTriedForgetful(tried, name) == {name}

\* tried_providers.add(self.active_provider.name)
AddTried(tried, name) == tried \cup {name}

\* faulty variant of GetFallbackProvider: the providers to exclude are ignored
GetFallbackProviderAnyOther(current_name, exclude) ==
    LET ok == {i \in 1..Len(ProviderOrder) : ProviderOrder[i] # current_name}
    IN  IF ok = {} THEN NoProvider
        ELSE ProviderOrder[CHOOSE i \in ok : \A j \in ok : i <= j]

\* OctopusSession._get_fallback_provider
GetFallbackProvider(current_name, exclude) ==
    LET ok == {i \in 1..Len(ProviderOrder) :
                  ProviderOrder[i] # current_name /\ ProviderOrder[i] \notin exclude}
    IN  IF ok = {} THEN NoProvider
        ELSE ProviderOrder[CHOOSE i \in ok : \A j \in ok : i <= j]

(***************************************************************************)
(* State.                                                                  *)
(***************************************************************************)
VARIABLES
    \* configuration (ConfigStore and the constructor's arguments)
    auto_approve, role_name, autonomy_level, roles, allowed_tools,
    \* what the models behind the providers may answer in this run, and
    \* whether a call of a provider may fail
    models,
    \* OctopusSession attributes
    llm_tools, sudo_tools, session_mode, history, waiting_tool_id,
    question_context, pending_text_question, ask_user_count,
    post_approval_ask_count, delegation_count, abort_flag, active_provider,
    active_model_id,
    \* locals of process_user_input / _process_impl and the generator's position
    pc, user_input, round, tried_providers, response_msg, tc_idx, result_str,
    active_tools, optimized_history,
    \* locals of _run_sub_agent_loop
    current_history, attempt, dev_i, dev_output, dev_calls, dev_idx, last_result,
    feedback, task_result, reviews,
    \* what the last step showed: the events handed to the consumer, the lines
    \* it appended to the session log, the last event of the turn, and the call
    \* made to a Transport or to the engine
    emitted, logged, last_event, invoked,
    \* the last call of the Gateway in the round (provider, model id, outcome),
    \* the Developer sub-loops started in the turn, and the result of pruning
    \* a pruned history once more
    gateway_call, sub_loops, reoptimized_history,
    \* what is left of the bounds (user inputs, answers of the orchestrating
    \* model, answers of the Developer and Reviewer models), whether the user may
    \* still interrupt (a run has one call of abort() at most), and the next id
    \* the provider gives a tool call
    turns, work, sub_work, can_abort, next_id,
    \* ProviderManager.chat_complete: the provider's configuration, whether
    \* tools are passed, the messages passed, the strategy chosen and the
    \* messages handed to litellm
    provider, with_tools, messages, strategy, final_messages,
    \* a streamed answer: who consumes it, the deltas the provider has yet to
    \* send, accumulated_content of chat_complete_stream, the filter's
    \* inside_xml and xml_buffer, the contents of the streaming events handed
    \* to the consumer, and the message of the done event
    consumer, deltas, accumulated_content, inside_xml, xml_buffer, delivered,
    done_message,
    \* JSONRPCClient: _request_id, the holder of _lock, the callers' positions
    \* and locals, the lines written to the child's stdin, the lines the child
    \* wrote and no caller has read, and what the child has yet to do; the ids
    \* _next_id returned, the lines a caller read and dropped, and the
    \* notifications passed to a handler
    request_id, lock, callers, stdin, stdout, server, allocated, dropped, handled

cfgVars == <<auto_approve, role_name, autonomy_level, roles, allowed_tools, models>>
toolVars == <<llm_tools, sudo_tools>>
modeVars == <<session_mode, question_context, waiting_tool_id, pending_text_question>>
countVars == <<ask_user_count, post_approval_ask_count, delegation_count, sub_loops>>
provVars == <<active_provider, active_model_id, tried_providers, gateway_call>>
pruneVars == <<optimized_history, reoptimized_history>>
msgVars == <<provider, with_tools, messages, strategy, final_messages>>
streamVars == <<consumer, deltas, accumulated_content, inside_xml, xml_buffer, delivered,
                done_message>>
rpcVars == <<request_id, lock, callers, stdin, stdout, server, allocated, dropped, handled>>
funcVars == <<pruneVars, msgVars, streamVars, rpcVars>>

\* no call of chat_complete is under way
GatewayIdle ==
    /\ provider = [type |-> "none", tool_mode |-> "auto"]
    /\ with_tools = FALSE
    /\ messages = <<>>
    /\ strategy = "none"
    /\ final_messages = <<>>

\* no answer is streamed
StreamIdle ==
    /\ consumer = "none"
    /\ deltas = <<>>
    /\ accumulated_content = <<>>
    /\ inside_xml = FALSE
    /\ xml_buffer = <<>>
    /\ delivered = <<>>
    /\ done_message = [content |-> <<>>, tool_calls |-> <<>>]

\* no Transport is in use
TransportIdle ==
    /\ request_id = 0
    /\ lock = "free"
    /\ callers = <<>>
    /\ stdin = <<>>
    /\ stdout = <<>>
    /\ server = [running |-> FALSE, read |-> 0, notes |-> 0, exited |-> FALSE,
                 stderr |-> <<>>, written |-> <<>>]
    /\ allocated = <<>>
    /\ dropped = <<>>
    /\ handled = <<>>

roundVars == <<round, response_msg, tc_idx, result_str, active_tools>>
boundVars == <<turns, work, sub_work, next_id>>
\* can_abort is set by Deliver and Silent, with abort_flag
delegVars == <<current_history, attempt, dev_i, dev_output, dev_calls, dev_idx,
               last_result, feedback, task_result, reviews>>

vars == <<cfgVars, toolVars, modeVars, countVars, provVars, funcVars, roundVars, boundVars,
          delegVars, history, abort_flag, can_abort, pc, user_input, emitted, logged, last_event, invoked>>

\* RoleConfig.system_prompt
SystemPrompt(r) == <<"system prompt", r>>

\* RoleConfig.allowed_tools of the active role
AllowedToolSets == {AllTools}

(***************************************************************************)
(* What the models answer.                                                 *)
(***************************************************************************)
\* what the model may answer in a round
Call(n) == [name |-> n, reason |-> ""]
Ask(reason) == [name |-> "ask_user", reason |-> reason]
Reply(content, calls) == [content |-> content, calls |-> calls]
OrchReplies ==
    {Reply(<<"Here is the plan.">>, <<>>),
     Reply(<<"Plan ready.", "Shall I proceed">>, <<>>),
     Reply(<<>>, <<Ask("plan_approval")>>),
     Reply(<<>>, <<Ask("strategic_decision"), Call("request_admin_privileges")>>),
     Reply(<<>>, <<Call("write_file")>>),
     Reply(<<>>, <<Call("delegate_task")>>),
     Reply(<<"Shall I proceed">>, <<Ask("plan_approval"), Call("read_file")>>)}

\* what the Developer model may answer, what read_file may return and what
\* run_shell_command returns
DevReplies ==
    {Reply(<<"Done.">>, <<>>),
     Reply(<<"Reading.">>, <<Call("read_file")>>),
     Reply(<<"Running.">>, <<Call("read_file"), Call("run_shell_command")>>)}
FileContents == {<<"def parse(): pass">>, <<"Hello World">>}
ShellOutput == <<"Exit Code: 0", "STDOUT:", "2 passed">>

\* what the Reviewer model may answer
ReviewerReplies == {<<"APPROVED">>, <<"Not", "approved">>, <<"needs", "work">>}

(***************************************************************************)
(* OctopusSession.__init__ followed by initialize().                       *)
(***************************************************************************)
\* the configurations of the model: the roles ConfigStore creates (architect
\* and developer, no reviewer) with the architect active, the same with a
\* reviewer role and --auto-approve, an autonomous developer as the
\* active role, and a configuration file whose roles are an architect and a
\* reviewer only; the active role is allowed every tool
Config(auto, r, autonomy, rs) ==
    [auto_approve |-> auto, role_name |-> r, autonomy_level |-> autonomy, roles |-> rs]
Configs ==
    {Config(FALSE, "architect", "balanced", Roles),
     Config(TRUE, "architect", "balanced", Roles \cup {"reviewer"}),
     Config(FALSE, "developer", "autonomous", Roles \cup {"reviewer"}),
     Config(FALSE, "architect", "balanced", {"architect", "reviewer"})}

\* a run is a conversation of several turns whose delegations are cut short,
\* or one turn with a delegation in full
Budget(t, w, sw) == [turns |-> t, work |-> w, sub_work |-> sw]
Budgets == {Budget(MaxTurns, MaxWork, 0), Budget(1, 1, MaxSubWork)}

\* the models of a run: the answers of the orchestrating model, of the
\* Developer model and of the Reviewer model, and whether calls may fail
Models(orch, dev, rev, fail) == [orch |-> orch, dev |-> dev, rev |-> rev, fail |-> fail]
AnyModels == Models(OrchReplies, DevReplies, ReviewerReplies, TRUE)

\* a run is one of Budgets with models that answer anything, or a longer run
\* with models that keep to one line: a Reviewer that never approves, a
\* Developer that calls tools in every answer, an orchestrating model that
\* delegates again and again, one that calls a tool in every round,
\* providers that fail, an orchestrating model that asks for approval in
\* every answer, and one that asks in the text of every answer
Run(b, m) == [budget |-> b, models |-> m]
Runs ==
    {Run(b, AnyModels) : b \in Budgets}
    \cup
    {Run(Budget(1, 1, MaxRetryWork),
         Models({Reply(<<>>, <<Call("delegate_task")>>)}, {Reply(<<"Done.">>, <<>>)},
                {<<"needs", "work">>}, FALSE)),
     Run(Budget(1, 2, MaxIterWork),
         Models({Reply(<<>>, <<Call("delegate_task")>>)},
                {Reply(<<"Running.">>, <<Call("read_file"), Call("run_shell_command")>>)},
                {<<"APPROVED">>}, FALSE)),
     Run(Budget(2, MaxDelegWork, 2 * MaxDelegWork),
         Models({Reply(<<>>, <<Call("delegate_task")>>), Reply(<<"Here is the plan.">>, <<>>)},
                {Reply(<<"Done.">>, <<>>)}, {<<"APPROVED">>}, FALSE)),
     Run(Budget(1, MaxRoundWork, 0),
         Models({Reply(<<>>, <<Call("write_file")>>)}, {}, {}, FALSE)),
     Run(Budget(1, MaxFailWork, 0),
         Models({Reply(<<"Here is the plan.">>, <<>>)}, {}, {}, TRUE)),
     Run(Budget(MaxTurns, MaxAskWork, 0),
         Models({Reply(<<>>, <<Ask("plan_approval")>>)}, {}, {}, FALSE)),
     Run(Budget(2, MaxRoundWork, 0),
         Models({Reply(<<"Plan ready.", "Shall I proceed">>, <<>>)}, {}, {}, FALSE))}

\* the runs of a configuration: without a developer role, one turn of an
\* orchestrating model that delegates
RunsOf(rs) ==
    IF "developer" \in rs THEN Runs
    ELSE {Run(Budget(1, 2, MaxIterWork),
              Models({Reply(<<>>, <<Call("delegate_task")>>)},
                     {Reply(<<"Running.">>, <<Call("read_file"), Call("run_shell_command")>>)},
                     {<<"APPROVED">>}, FALSE))}

Init ==
    /\ \E c \in Configs :
          /\ auto_approve = c.auto_approve
          /\ role_name = c.role_name
          /\ autonomy_level = c.autonomy_level
          /\ roles = c.roles
    /\ sudo_tools = {}
    /\ allowed_tools \in AllowedToolSets
    /\ llm_tools = RefreshDynamicTools(FilterToolsByRole(ServerTools, allowed_tools),
                                       roles, role_name, sudo_tools, allowed_tools)
    /\ session_mode = PLAN
    /\ history = <<SystemMsg(SystemPrompt(role_name))>>
    /\ waiting_tool_id = NoId
    /\ question_context = NoContext
    /\ pending_text_question = FALSE
    /\ ask_user_count = 0
    /\ post_approval_ask_count = 0
    /\ delegation_count = 0
    /\ abort_flag = FALSE
    /\ active_provider = RoleProvider(role_name)
    /\ pc = "idle"
    /\ user_input = ""
    /\ round = 1
    /\ tried_providers = {}
    /\ response_msg = NoMessage
    /\ tc_idx = 1
    /\ result_str = <<>>
    /\ active_tools = {}
    /\ current_history = <<>>
    /\ attempt = 1
    /\ dev_i = 1
    /\ dev_output = <<>>
    /\ dev_calls = <<>>
    /\ dev_idx = 1
    /\ last_result = <<>>
    /\ feedback = <<>>
    /\ task_result = NoResult
    /\ reviews = 0
    /\ emitted = <<>>
    /\ logged = <<>>
    /\ last_event = NoEvent
    /\ invoked = NoCall
    /\ \E r \in RunsOf(roles) :
          /\ turns = r.budget.turns
          /\ work = r.budget.work
          /\ sub_work = r.budget.sub_work
          /\ models = r.models
    /\ can_abort = TRUE
    /\ next_id = 1
    /\ active_model_id = RoleModel(role_name)
    /\ gateway_call = NoGatewayCall
    /\ sub_loops = 0
    /\ optimized_history = <<>>
    /\ reoptimized_history = <<>>
    /\ GatewayIdle
    /\ StreamIdle
    /\ TransportIdle

(***************************************************************************)
(* The wrapper of process_user_input: every event of _process_impl is      *)
(* logged and yielded, and when abort_flag is found set after the yield    *)
(* the cancellation error is yielded and the generator is dropped.         *)
(* flag is abort_flag when the stretch starts; cut is the event during     *)
(* whose delivery abort() is called (0: it is not called).                 *)
(***************************************************************************)
\* SessionLogger.log_event: the line written for an event
LogEntry(e) == [type |-> e.type, content |-> e.tag]

\* the line process_user_input writes before it runs _process_impl
LogStart == IF pc = "idle" THEN <<[type |-> "user_msg", content |-> ""]>> ELSE <<>>

\* the events of _process_impl are logged and yielded up to the one after
\* which abort_flag is found set; the cancellation error is yielded then
Deliver(flag, evs, next, cut) ==
    LET at == IF flag THEN 1 ELSE cut
        fromImpl == IF at > 0 THEN SubSeq(evs, 1, at) ELSE evs
        out == IF at > 0 THEN Append(fromImpl, CancelEvent) ELSE evs
    IN  /\ abort_flag' = (at > 0)
        /\ can_abort' = (can_abort /\ (flag \/ cut = 0))
        /\ emitted' = out
        /\ logged' = LogStart \o [i \in 1..Len(fromImpl) |-> LogEntry(fromImpl[i])]
        /\ last_event' = out[Len(out)]
        /\ pc' = IF at > 0 THEN "done" ELSE next

\* a stretch of the generator that yields nothing
Silent(flag, next) ==
    /\ abort_flag' = flag
    /\ can_abort' = can_abort
    /\ emitted' = <<>>
    /\ logged' = LogStart
    /\ last_event' = last_event
    /\ pc' = next

Cuts(evs) == IF can_abort THEN 0..Len(evs) ELSE {0}

\* OctopusSession.abort, called from the user interface while a turn runs
Abort ==
    /\ pc \notin {"idle", "done"}
    /\ ~abort_flag
    /\ can_abort
    /\ abort_flag' = TRUE
    /\ can_abort' = FALSE
    /\ UNCHANGED <<delegVars, cfgVars, funcVars, toolVars, modeVars, countVars, provVars, roundVars,
                   boundVars, history, pc, user_input, emitted, logged, last_event, invoked>>

DeliverAny(flag, evs, next) == \E cut \in Cuts(evs) : Deliver(flag, evs, next, cut)

(***************************************************************************)
(* _process_impl, before the reasoning loop.                               *)
(***************************************************************************)
\* the test of the resume branch: the answer approves the plan
PlanApproved(context, inp) ==
    context = "plan_approval" /\ StripLower(inp) \in approval_responses_answer

\* faulty variant of TextApproved: the pending flag is not consulted
TextApprovedUnasked(pending, mode, inp) ==
    mode = PLAN /\ StripLower(inp) \in approval_responses_text

\* the test of the new-input branch: the input approves a text-based question
TextApproved(pending, mode, inp) ==
    pending /\ mode = PLAN /\ StripLower(inp) \in approval_responses_text

ExecuteBannerMsg == SystemMsg(<<"[MODE: EXECUTE] Plan approved by user.">>)
TextBannerMsg == SystemMsg(<<"[MODE: EXECUTE] User approved the plan.">>)
ReviseMsg(inp) == SystemMsg(<<"[MODE: PLAN] User response:", inp>>)

\* faulty variant of AnswerMsg: the id of the pending call is lost
AnswerMsgUnknownId(id, inp) == ToolMsg("call_unknown", "ask_user", <<inp>>)

\* the tool message that answers the pending question
AnswerMsg(id, inp) == ToolMsg(id, "ask_user", <<inp>>)

\* faulty variant of AnswerQuestion: the pending id is not cleared
AnswerQuestionKeepsPending(inp, flag) ==
    /\ history' = Append(history, AnswerMsg(waiting_tool_id, inp))
    /\ waiting_tool_id' = waiting_tool_id
    /\ question_context' = NoContext
    /\ pending_text_question' = pending_text_question
    /\ IF PlanApproved(question_context, inp)
       THEN /\ session_mode' = EXECUTE
            /\ DeliverAny(flag, <<SessionEvent("status", "Plan approved"),
                                  SessionEvent("log", "MODE TRANSITION")>>,
                          "execute_banner")
       ELSE /\ session_mode' = session_mode
            /\ DeliverAny(flag, <<SessionEvent("log", "User answered")>>,
                          "revise_banner")

\* the resume branch from the append of the answer to the yields that follow
AnswerQuestion(inp, flag) ==
    /\ history' = Append(history, AnswerMsg(waiting_tool_id, inp))
    /\ waiting_tool_id' = NoId
    /\ question_context' = NoContext
    /\ pending_text_question' = pending_text_question
    /\ IF PlanApproved(question_context, inp)
       THEN /\ session_mode' = EXECUTE
            /\ DeliverAny(flag, <<SessionEvent("status", "Plan approved"),
                                  SessionEvent("log", "MODE TRANSITION")>>,
                          "execute_banner")
       ELSE /\ session_mode' = session_mode
            /\ DeliverAny(flag, <<SessionEvent("log", "User answered")>>,
                          "revise_banner")

\* the duplicate warning of the task history, then the append of the input
CheckDuplicate(h, inp, flag) ==
    \/ /\ LongInput(inp)
       /\ history' = h
       /\ DeliverAny(flag, <<SessionEvent("text", "Possible Duplicate Task")>>,
                     "append_user")
    \/ /\ history' = Append(h, UserMsg(<<inp>>))
       /\ Silent(flag, "round")

\* faulty variant of NewInput: an input that approves nothing starts over in PLAN
NewInputStartsOver(inp, flag) ==
    /\ pending_text_question' = FALSE
    /\ UNCHANGED <<waiting_tool_id, question_context>>
    /\ IF TextApproved(pending_text_question, session_mode, inp)
       THEN /\ session_mode' = EXECUTE
            /\ history' = history
            /\ DeliverAny(flag, <<SessionEvent("status", "Plan approved (via text)"),
                                  SessionEvent("log", "MODE TRANSITION")>>,
                          "text_banner")
       ELSE /\ session_mode' = PLAN
            /\ CheckDuplicate(history, inp, flag)

\* the new-input branch
NewInput(inp, flag) ==
    /\ pending_text_question' = FALSE
    /\ UNCHANGED <<waiting_tool_id, question_context>>
    /\ IF TextApproved(pending_text_question, session_mode, inp)
       THEN /\ session_mode' = EXECUTE
            /\ history' = history
            /\ DeliverAny(flag, <<SessionEvent("status", "Plan approved (via text)"),
                                  SessionEvent("log", "MODE TRANSITION")>>,
                          "text_banner")
       ELSE /\ session_mode' = session_mode
            /\ CheckDuplicate(history, inp, flag)

\* process_user_input up to the first yield of _process_impl
ProcessUserInput ==
    /\ pc = "idle"
    /\ turns > 0
    /\ \E inp \in UserInputs :
          IF waiting_tool_id # NoId
          THEN IF auto_approve /\ question_context = "plan_approval"
               THEN /\ user_input' = "yes"
                    /\ DeliverAny(FALSE, <<SessionEvent("log", "AUTO-APPROVE")>>, "answer")
                    /\ UNCHANGED <<history, modeVars>>
               ELSE /\ user_input' = inp
                    /\ AnswerQuestion(inp, FALSE)
          ELSE /\ user_input' = inp
               /\ NewInput(inp, FALSE)
    /\ turns' = turns - 1
    /\ delegation_count' = 0
    /\ sub_loops' = 0
    /\ post_approval_ask_count' = 0
    /\ round' = 1
    /\ invoked' = NoCall
    /\ UNCHANGED <<delegVars, cfgVars, funcVars, toolVars, ask_user_count, provVars, response_msg, tc_idx,
                   result_str, active_tools, work, sub_work, next_id>>

\* the resume branch after the auto-approve log event
AutoApprovedAnswer ==
    /\ pc = "answer"
    /\ AnswerQuestion(user_input, abort_flag)
    /\ invoked' = NoCall
    /\ UNCHANGED <<delegVars, cfgVars, funcVars, toolVars, countVars, provVars, roundVars, boundVars,
                   user_input>>

ExecuteBanner ==
    /\ pc = "execute_banner"
    /\ history' = Append(history, ExecuteBannerMsg)
    /\ Silent(abort_flag, "round")
    /\ invoked' = NoCall
    /\ UNCHANGED <<delegVars, cfgVars, funcVars, toolVars, modeVars, countVars, provVars, roundVars,
                   boundVars, user_input>>

ReviseBanner ==
    /\ pc = "revise_banner"
    /\ history' = Append(history, ReviseMsg(user_input))
    /\ Silent(abort_flag, "round")
    /\ invoked' = NoCall
    /\ UNCHANGED <<delegVars, cfgVars, funcVars, toolVars, modeVars, countVars, provVars, roundVars,
                   boundVars, user_input>>

TextBanner ==
    /\ pc = "text_banner"
    /\ CheckDuplicate(Append(Append(history, UserMsg(<<user_input>>)), TextBannerMsg),
                      user_input, abort_flag)
    /\ invoked' = NoCall
    /\ UNCHANGED <<delegVars, cfgVars, funcVars, toolVars, modeVars, countVars, provVars, roundVars,
                   boundVars, user_input>>

AppendUser ==
    /\ pc = "append_user"
    /\ history' = Append(history, UserMsg(<<user_input>>))
    /\ Silent(abort_flag, "round")
    /\ invoked' = NoCall
    /\ UNCHANGED <<delegVars, cfgVars, funcVars, toolVars, modeVars, countVars, provVars, roundVars,
                   boundVars, user_input>>

\* the locals of _run_sub_agent_loop before its first statement
NoDelegation ==
    /\ current_history' = <<>>
    /\ attempt' = 1
    /\ dev_i' = 1
    /\ dev_output' = <<>>
    /\ dev_calls' = <<>>
    /\ dev_idx' = 1
    /\ last_result' = <<>>
    /\ feedback' = <<>>
    /\ task_result' = NoResult
    /\ reviews' = 0

\* the generator of process_user_input is exhausted or left by `break`: the
\* turn is over and its locals are gone
Return ==
    /\ pc = "done"
    /\ pc' = "idle"
    /\ user_input' = ""
    /\ round' = 1
    /\ tried_providers' = {}
    /\ gateway_call' = NoGatewayCall
    /\ response_msg' = NoMessage
    /\ tc_idx' = 1
    /\ result_str' = <<>>
    /\ active_tools' = {}
    /\ NoDelegation
    /\ emitted' = <<>>
    /\ logged' = <<>>
    /\ last_event' = NoEvent
    /\ invoked' = NoCall
    /\ UNCHANGED <<cfgVars, funcVars, toolVars, modeVars, countVars, active_provider,
                   active_model_id, boundVars, history, abort_flag, can_abort>>

(***************************************************************************)
(* _process_impl, the reasoning loop: the Gateway call and failover.       *)
(***************************************************************************)
\* the tool calls of a reply, with the ids the provider gives them
CallId(n) == "call_" \o ToString(n)
WithIds(calls, first) ==
    [i \in 1..Len(calls) |->
        ToolCall(CallId(first + i - 1), calls[i].name, calls[i].reason)]

\* `if self.abort_flag: return` at the top of the round, of the failover loop
\* and of the dispatch of a tool call
AbortReturn ==
    /\ pc \in {"round", "call", "dispatch"}
    /\ abort_flag
    /\ Silent(TRUE, "done")
    /\ invoked' = NoCall
    /\ UNCHANGED <<delegVars, cfgVars, funcVars, toolVars, modeVars, countVars, provVars, roundVars,
                   boundVars, history, user_input>>

RoundStart ==
    /\ pc = "round"
    /\ ~abort_flag
    /\ tried_providers' = {}
    /\ gateway_call' = NoGatewayCall
    /\ DeliverAny(FALSE, <<SessionEvent("status", "Thinking")>>, "call")
    /\ invoked' = NoCall
    /\ UNCHANGED <<delegVars, cfgVars, funcVars, toolVars, modeVars, countVars, active_provider,
                   active_model_id, roundVars, boundVars, history, user_input>>

\* the events of a Gateway call that returns a message
ReplyEvents(p, content) ==
    IF ProviderType(p) = "ollama" /\ content # <<>>
    THEN <<SessionEvent("streaming", "chunk"), SessionEvent("stats", "")>>
    ELSE <<SessionEvent("stats", "")>>

GatewayReply ==
    /\ pc = "call"
    /\ ~abort_flag
    /\ work > 0
    /\ \E r \in models.orch :
          /\ response_msg' = AssistantMsg(r.content, WithIds(r.calls, next_id))
          /\ next_id' = next_id + Len(r.calls)
          /\ DeliverAny(FALSE, ReplyEvents(active_provider, r.content), "respond")
    /\ work' = work - 1
    /\ active_tools' = GetToolsForMode(session_mode, role_name, llm_tools)
    /\ gateway_call' = GatewayCall(active_provider, active_model_id, FALSE,
                                    FailedSoFar(gateway_call))
    /\ invoked' = NoCall
    /\ UNCHANGED <<delegVars, cfgVars, funcVars, toolVars, modeVars, countVars, active_provider,
                   active_model_id, tried_providers, round, tc_idx, result_str, turns,
                   sub_work, history, user_input>>

GatewayError ==
    /\ pc = "call"
    /\ ~abort_flag
    /\ work > 0
    /\ models.fail
    /\ work' = work - 1
    /\ active_tools' = GetToolsForMode(session_mode, role_name, llm_tools)
    /\ gateway_call' = GatewayCall(active_provider, active_model_id, TRUE,
                                    FailedSoFar(gateway_call))
    /\ DeliverAny(FALSE, <<SessionEvent("error", "Provider error")>>, "failover")
    /\ invoked' = NoCall
    /\ UNCHANGED <<delegVars, cfgVars, funcVars, toolVars, modeVars, countVars, active_provider,
                   active_model_id, tried_providers, round, response_msg, tc_idx,
                   result_str, turns, sub_work, next_id, history, user_input>>

Failover ==
    /\ pc = "failover"
    /\ tried_providers' = AddTried(tried_providers, active_provider)
    /\ IF GetFallbackProvider(active_provider, tried_providers') # NoProvider
       THEN DeliverAny(abort_flag, <<SessionEvent("log", "Failover")>>, "switch")
       ELSE DeliverAny(abort_flag,
                       <<SessionEvent("error", "No fallback available")>>, "done")
    /\ invoked' = NoCall
    /\ UNCHANGED <<delegVars, cfgVars, funcVars, toolVars, modeVars, countVars, active_provider,
                   active_model_id, gateway_call, roundVars, boundVars, history,
                   user_input>>

SwitchProvider ==
    /\ pc = "switch"
    /\ active_provider' = GetFallbackProvider(active_provider, tried_providers)
    /\ Silent(abort_flag, "call")
    /\ invoked' = NoCall
    /\ UNCHANGED <<delegVars, cfgVars, funcVars, toolVars, modeVars, countVars, active_model_id,
                   tried_providers, gateway_call, roundVars, boundVars, history,
                   user_input>>

(***************************************************************************)
(* _process_impl, the reasoning loop: the assistant message.               *)
(***************************************************************************)
\* faulty variant of MoreRounds: the loop has no last pass
MoreRoundsAlways(r) == TRUE

\* for _ in range(15): another pass follows pass r
MoreRounds(r) == r < MaxRounds

\* after the last statement of one pass of `for _ in range(15)`
NextRoundPc == IF MoreRounds(round) THEN "round" ELSE "done"
RoundAfter == IF MoreRounds(round) THEN round + 1 ELSE round

\* `if ... response_msg.tool_calls: for tc in ...` and `else: break`
ToolsOrBreak == IF response_msg.tool_calls # <<>> THEN "dispatch" ELSE "done"

RebukeMsg == SystemMsg(<<"[SYSTEM] EXECUTE MODE - Questions are NOT allowed.">>)

\* faulty variant of WithRebuke: the rebuke is not appended
WithRebukeForgotten(h) == h

\* self.history.append of the rebuke
WithRebuke(h) == Append(h, RebukeMsg)

Respond ==
    /\ pc = "respond"
    /\ history' = Append(history, response_msg)
    /\ tc_idx' = 1
    /\ IF response_msg.content # <<>>
       THEN DeliverAny(abort_flag, <<SessionEvent("text", "assistant")>>, "detect")
       ELSE Silent(abort_flag, ToolsOrBreak)
    /\ invoked' = NoCall
    /\ UNCHANGED <<delegVars, cfgVars, funcVars, toolVars, modeVars, countVars, provVars, round,
                   response_msg, result_str, active_tools, boundVars, user_input>>

DetectTextQuestion ==
    /\ pc = "detect"
    /\ IF DetectedPattern(response_msg.content) /\ session_mode = PLAN
       THEN /\ pending_text_question' = TRUE
            /\ post_approval_ask_count' = post_approval_ask_count
            /\ DeliverAny(abort_flag,
                          <<SessionEvent("log", "Detected text-based question")>>,
                          ToolsOrBreak)
       ELSE IF DetectedPattern(response_msg.content) /\ session_mode = EXECUTE
       THEN /\ pending_text_question' = pending_text_question
            /\ post_approval_ask_count' = post_approval_ask_count + 1
            /\ DeliverAny(abort_flag,
                          <<SessionEvent("log", "Blocked text-based question")>>,
                          "rebuke")
       ELSE /\ pending_text_question' = pending_text_question
            /\ post_approval_ask_count' = post_approval_ask_count
            /\ Silent(abort_flag, ToolsOrBreak)
    /\ invoked' = NoCall
    /\ UNCHANGED <<delegVars, cfgVars, funcVars, toolVars, session_mode, question_context, waiting_tool_id,
                   ask_user_count, delegation_count, sub_loops, provVars, roundVars,
                   boundVars, history, user_input>>

Rebuke ==
    /\ pc = "rebuke"
    /\ history' = WithRebuke(history)
    /\ round' = RoundAfter
    /\ IF post_approval_ask_count >= PostApprovalAskLimit
       THEN DeliverAny(abort_flag,
                       <<SessionEvent("error", "Model keeps asking questions")>>,
                       NextRoundPc)
       ELSE Silent(abort_flag, NextRoundPc)
    /\ invoked' = NoCall
    /\ UNCHANGED <<delegVars, cfgVars, funcVars, toolVars, modeVars, countVars, provVars, response_msg,
                   tc_idx, result_str, active_tools, boundVars, user_input>>

(***************************************************************************)
(* _process_impl, the reasoning loop: the dispatch of the tool calls.      *)
(***************************************************************************)
tc == response_msg.tool_calls[tc_idx]

\* faulty variant of AskUserGate: the autonomy level is not consulted
AskUserGateAnyAutonomy(mode, reason, autonomy, count) ==
    IF mode = EXECUTE THEN "execute_blocked"
    ELSE IF mode = REVIEW THEN "review_blocked"
    ELSE IF mode = PLAN /\ reason # "plan_approval" THEN "reason_blocked"
    ELSE IF count > max_ask_user_per_task THEN "limit"
    ELSE "ask"

\* the gate of an ask_user call, in the order of the code: the mode, the
\* reason, the autonomy level, the question limit (count: ask_user_count + 1)
AskUserGate(mode, reason, autonomy, count) ==
    IF mode = EXECUTE THEN "execute_blocked"
    ELSE IF mode = REVIEW THEN "review_blocked"
    ELSE IF mode = PLAN /\ reason # "plan_approval" THEN "reason_blocked"
    ELSE IF autonomy = "autonomous" THEN "autonomous"
    ELSE IF count > max_ask_user_per_task THEN "limit"
    ELSE "ask"

\* result_str of an ask_user call that is not asked
AskUserResult(verdict, post_count) ==
    CASE verdict = "execute_blocked" ->
            IF post_count >= PostApprovalAskLimit
            THEN <<"[CRITICAL] EXECUTE MODE - ask_user is DISABLED.">>
            ELSE <<"[SYSTEM] You are in EXECUTE MODE. The ask_user tool is disabled.">>
      [] verdict = "review_blocked" ->
            <<"[SYSTEM] You are in REVIEW MODE. No questions allowed.">>
      [] verdict = "reason_blocked" ->
            <<"[SYSTEM] In PLAN MODE, only ask_user(reason='plan_approval') is allowed.">>
      [] verdict = "autonomous" ->
            <<"[SYSTEM] Autonomous mode - proceeding without user input.">>
      [] verdict = "limit" ->
            <<"[SYSTEM] Question limit reached - proceeding with best judgment.">>

AskUserEvents(verdict, post_count) ==
    CASE verdict = "execute_blocked" ->
            IF post_count >= PostApprovalAskLimit
            THEN <<SessionEvent("error", "Model keeps asking in EXECUTE mode"),
                   SessionEvent("log", "Blocked ask_user in EXECUTE mode")>>
            ELSE <<SessionEvent("log", "Blocked ask_user in EXECUTE mode")>>
      [] verdict = "review_blocked" ->
            <<SessionEvent("log", "Blocked ask_user in REVIEW mode")>>
      [] verdict = "reason_blocked" ->
            <<SessionEvent("log", "Blocked non-plan_approval question")>>
      [] verdict = "autonomous" ->
            <<SessionEvent("log", "Skipped question (autonomous mode)")>>
      [] verdict = "limit" ->
            <<SessionEvent("log", "Question limit reached")>>
      [] verdict = "ask" ->
            <<SessionEvent("question", tc.reason)>>

AskUser ==
    /\ pc = "dispatch"
    /\ ~abort_flag
    /\ tc.name = "ask_user"
    /\ LET verdict == AskUserGate(session_mode, tc.reason, autonomy_level,
                                  ask_user_count + 1)
           post_count == IF verdict = "execute_blocked"
                         THEN post_approval_ask_count + 1
                         ELSE post_approval_ask_count
       IN  /\ post_approval_ask_count' = post_count
           /\ ask_user_count' = IF verdict \in {"limit", "ask"}
                                THEN ask_user_count + 1 ELSE ask_user_count
           /\ IF verdict = "ask"
              THEN /\ waiting_tool_id' = tc.id
                   /\ question_context' = tc.reason
                   /\ result_str' = result_str
                   /\ DeliverAny(FALSE, AskUserEvents(verdict, post_count), "done")
              ELSE /\ UNCHANGED <<waiting_tool_id, question_context>>
                   /\ result_str' = AskUserResult(verdict, post_count)
                   /\ DeliverAny(FALSE, AskUserEvents(verdict, post_count), "append")
    /\ invoked' = NoCall
    /\ UNCHANGED <<delegVars, cfgVars, funcVars, toolVars, session_mode, pending_text_question,
                   delegation_count, sub_loops, provVars, round, response_msg, tc_idx,
                   active_tools, boundVars, history, user_input>>

\* the tool_call event of every call that is not ask_user
ToolCallEvent ==
    /\ pc = "dispatch"
    /\ ~abort_flag
    /\ tc.name # "ask_user"
    /\ DeliverAny(FALSE, <<SessionEvent("tool_call", tc.name)>>, "exec")
    /\ invoked' = NoCall
    /\ UNCHANGED <<delegVars, cfgVars, funcVars, toolVars, modeVars, countVars, provVars, roundVars,
                   boundVars, history, user_input>>

\* request_admin_privileges, and any name that is neither delegate_task nor in
\* tools_map: result_str ends as "Error: Tool not found"
ExecOther ==
    /\ pc = "exec"
    /\ tc.name # "delegate_task"
    /\ tc.name \notin ServerTools
    /\ result_str' = <<"Error: Tool not found">>
    /\ IF tc.name = "request_admin_privileges" /\ sudo_tools # {}
       THEN /\ llm_tools' = RefreshDynamicTools(llm_tools \cup sudo_tools, roles,
                                                role_name, {}, allowed_tools)
            /\ sudo_tools' = {}
            /\ DeliverAny(abort_flag,
                          <<SessionEvent("log", "Admin Privileges Unlocked")>>, "append")
       ELSE /\ UNCHANGED toolVars
            /\ Silent(abort_flag, "append")
    /\ invoked' = NoCall
    /\ UNCHANGED <<delegVars, cfgVars, funcVars, modeVars, countVars, provVars, round, response_msg,
                   tc_idx, active_tools, boundVars, history, user_input>>

\* self.tools_map[fn_name].call_tool(fn_name, fn_args)
ExecTool ==
    /\ pc = "exec"
    /\ tc.name \in ServerTools
    /\ invoked' = Invocation("transport", tc.name, "driver", role_name, session_mode)
    /\ result_str' = <<"tool output">>
    /\ DeliverAny(abort_flag, <<SessionEvent("tool_result", tc.name)>>, "append")
    /\ UNCHANGED <<delegVars, cfgVars, funcVars, toolVars, modeVars, countVars, provVars, round,
                   response_msg, tc_idx, active_tools, boundVars, history, user_input>>

\* faulty variant of DelegationsExceeded: one delegation more
DelegationsExceededLate(count) == count > max_delegations_per_role + 1

\* if self.delegation_counts[target] > self.max_delegations_per_role
DelegationsExceeded(count) == count > max_delegations_per_role

ExceededMsg == <<"ERROR: Exceeded maximum delegations to developer">>

\* delegate_task up to the call of _run_sub_agent_loop
ExecDelegate ==
    /\ pc = "exec"
    /\ tc.name = "delegate_task"
    /\ delegation_count' = delegation_count + 1
    /\ IF DelegationsExceeded(delegation_count')
       THEN /\ result_str' = ExceededMsg
            /\ DeliverAny(abort_flag,
                          <<SessionEvent("error", "Delegation limit reached")>>, "append")
       ELSE /\ result_str' = result_str
            /\ DeliverAny(abort_flag,
                          <<SessionEvent("log", "Refining Plan -> Developer"),
                            SessionEvent("todo_add", "pending"),
                            SessionEvent("todo_update", "in_progress")>>, "deleg")
    /\ invoked' = NoCall
    /\ UNCHANGED <<delegVars, cfgVars, funcVars, toolVars, modeVars, ask_user_count,
                   post_approval_ask_count, sub_loops, provVars, round, response_msg,
                   tc_idx, active_tools, boundVars, history, user_input>>

\* faulty variant of ResultMsg: the id of the call is not passed on
ResultMsgUnknownId(call, res) == ToolMsg("call_unknown", call.name, res)

\* {"role": "tool", "tool_call_id": tc.id, "name": fn_name, "content": result_str}
ResultMsg(call, res) == ToolMsg(call.id, call.name, res)

\* self.history.append of the tool result, then the next call or the next round
AppendResult ==
    /\ pc = "append"
    /\ history' = Append(history, ResultMsg(tc, result_str))
    /\ IF tc_idx < Len(response_msg.tool_calls)
       THEN /\ tc_idx' = tc_idx + 1
            /\ round' = round
            /\ Silent(abort_flag, "dispatch")
       ELSE /\ tc_idx' = tc_idx
            /\ round' = RoundAfter
            /\ Silent(abort_flag, NextRoundPc)
    /\ invoked' = NoCall
    /\ UNCHANGED <<delegVars, cfgVars, funcVars, toolVars, modeVars, countVars, provVars,
                   response_msg, result_str, active_tools, boundVars, user_input>>

(***************************************************************************)
(* _run_sub_agent_loop: the Developer attempts and the Reviewer.           *)
(***************************************************************************)
\* the id the adapter gives a parsed tool call of the Developer
DevCallId == "json_heuristic"

\* faulty variant of ReviewerConfigured: the reviewer role is never found
ReviewerNeverFound(rs) == FALSE

\* rev_cfg = self.config_store.get_role("reviewer") is not None
ReviewerConfigured(rs) == "reviewer" \in rs

\* if "APPROVED" in feedback.upper()
ReviewerApproves(fb) == Contains(UpperText(fb), "APPROVED")

TaskSpecMsg == UserMsg(<<"TASK SPECIFICATION:", "Execute this task.">>)
FeedbackMsg(fb) == UserMsg(<<"[REVIEWER FEEDBACK]:">> \o fb)

\* faulty variant of BaseHistory: the conversation of the caller comes first
BaseHistoryCarried(h) == h \o <<TaskSpecMsg>>

\* base_history: the Developer's system prompt and the task specification
BaseHistory(h) == <<SystemMsg(SystemPrompt("developer")), TaskSpecMsg>>

dtc == dev_calls[dev_idx]

\* str(res_obj) of a tool the Developer calls
ToolResults(n) ==
    IF n = "read_file" THEN FileContents
    ELSE IF n = "run_shell_command" THEN {ShellOutput}
    ELSE {<<"tool output">>}

\* the entry of _run_sub_agent_loop up to the first yield of the first attempt;
\* without a developer role dev_cfg is None and the except clause of the
\* delegate_task branch reports the error
DelegationStart ==
    /\ pc = "deleg"
    /\ IF "developer" \notin roles
       THEN /\ result_str' = <<"ERROR during delegation">>
            /\ invoked' = NoCall
            /\ UNCHANGED <<delegVars, sub_loops>>
            /\ DeliverAny(abort_flag,
                          <<SessionEvent("error", "ERROR during delegation")>>, "append")
       ELSE /\ result_str' = result_str
            /\ invoked' = Invocation("delegation", "delegate_task", "driver",
                                     role_name, session_mode)
            /\ sub_loops' = sub_loops + 1
            /\ current_history' = BaseHistory(history)
            /\ attempt' = 1
            /\ dev_i' = 1
            /\ last_result' = <<>>
            /\ dev_output' = <<>>
            /\ dev_calls' = <<>>
            /\ dev_idx' = 1
            /\ feedback' = <<>>
            /\ task_result' = NoResult
            /\ reviews' = 0
            /\ DeliverAny(abort_flag, <<SessionEvent("status", "Developer Attempt")>>,
                          "dev_iter")
    /\ UNCHANGED <<cfgVars, funcVars, toolVars, modeVars, ask_user_count,
                   post_approval_ask_count, delegation_count, provVars, round,
                   response_msg, tc_idx, active_tools, boundVars, history, user_input>>

\* faulty variant of WhileAttempt: one attempt more
WhileAttemptInclusive(a) == a <= max_retries + 1

\* while attempt <= max_retries
WhileAttempt(a) == a <= max_retries

\* the loop condition after a feedback round
AttemptStart ==
    /\ pc = "attempt"
    /\ IF WhileAttempt(attempt)
       THEN /\ dev_i' = 1
            /\ task_result' = task_result
            /\ DeliverAny(abort_flag, <<SessionEvent("status", "Developer Attempt")>>,
                          "dev_iter")
       ELSE /\ dev_i' = dev_i
            /\ task_result' = TaskResult("failure", last_result, <<"Max retries reached">>)
            /\ Silent(abort_flag, "deleg_done")
    /\ invoked' = NoCall
    /\ UNCHANGED <<cfgVars, funcVars, toolVars, modeVars, countVars, provVars, roundVars, boundVars,
                   history, user_input, current_history, attempt, dev_output, dev_calls,
                   dev_idx, last_result, feedback, reviews>>

\* `for i in range(dev_loop_max)`: the status event of an iteration, or the
\* end of the loop
DevIteration ==
    /\ pc = "dev_iter"
    /\ IF dev_i <= dev_loop_max
       THEN DeliverAny(abort_flag, <<SessionEvent("status", "Developer Iter")>>, "dev_call")
       ELSE Silent(abort_flag, "review")
    /\ invoked' = NoCall
    /\ UNCHANGED <<delegVars, cfgVars, funcVars, toolVars, modeVars, countVars, provVars, roundVars,
                   boundVars, history, user_input>>

\* the streamed answer of the Developer model
DevReply ==
    /\ pc = "dev_call"
    /\ sub_work > 0
    /\ \E r \in models.dev :
          /\ dev_output' = r.content
          /\ dev_calls' = [i \in 1..Len(r.calls) |->
                              ToolCall(DevCallId, r.calls[i].name, r.calls[i].reason)]
    /\ sub_work' = sub_work - 1
    /\ DeliverAny(abort_flag, <<SessionEvent("streaming", "chunk"),
                                SessionEvent("stats", "")>>, "dev_parse")
    /\ invoked' = NoCall
    /\ UNCHANGED <<cfgVars, funcVars, toolVars, modeVars, countVars, provVars, roundVars, turns,
                   work, next_id, history, user_input, current_history, attempt, dev_i,
                   dev_idx, last_result, feedback, task_result,
                   reviews>>

\* the stream of the Developer model fails: "Developer Error", break
DevError ==
    /\ pc = "dev_call"
    /\ sub_work > 0
    /\ models.fail
    /\ sub_work' = sub_work - 1
    /\ dev_output' = <<>>
    /\ DeliverAny(abort_flag, <<SessionEvent("error", "Developer Error")>>, "review")
    /\ invoked' = NoCall
    /\ UNCHANGED <<cfgVars, funcVars, toolVars, modeVars, countVars, provVars, roundVars, turns,
                   work, next_id, history, user_input, current_history, attempt, dev_i,
                   dev_calls, dev_idx, last_result, feedback, task_result,
                   reviews>>

\* the assistant message goes to the Developer conversation; without tool
\* calls the iteration loop is left
DevParse ==
    /\ pc = "dev_parse"
    /\ current_history' = Append(current_history, AssistantMsg(dev_output, dev_calls))
    /\ dev_idx' = 1
    /\ Silent(abort_flag, IF dev_calls # <<>> THEN "dev_tool" ELSE "review")
    /\ invoked' = NoCall
    /\ UNCHANGED <<cfgVars, funcVars, toolVars, modeVars, countVars, provVars, roundVars, boundVars,
                   history, user_input, attempt, dev_i, dev_output, dev_calls,
                   last_result, feedback, task_result, reviews>>

DevToolCall ==
    /\ pc = "dev_tool"
    /\ DeliverAny(abort_flag, <<SessionEvent("tool_call", dtc.name)>>, "dev_exec")
    /\ invoked' = NoCall
    /\ UNCHANGED <<delegVars, cfgVars, funcVars, toolVars, modeVars, countVars, provVars, roundVars,
                   boundVars, history, user_input>>

\* the tool runs, its result goes to the Developer conversation
DevExec ==
    /\ pc = "dev_exec"
    /\ \E res \in ToolResults(dtc.name) :
          current_history' = Append(current_history, ToolMsg(dtc.id, dtc.name, res))
    /\ invoked' = IF dtc.name \in ServerTools
                  THEN Invocation("transport", dtc.name, "sub_loop", "developer",
                                  session_mode)
                  ELSE NoCall
    /\ IF dev_idx < Len(dev_calls)
       THEN /\ dev_idx' = dev_idx + 1
            /\ dev_i' = dev_i
            /\ DeliverAny(abort_flag, <<SessionEvent("tool_result", dtc.name)>>, "dev_tool")
       ELSE /\ dev_idx' = dev_idx
            /\ dev_i' = dev_i + 1
            /\ DeliverAny(abort_flag, <<SessionEvent("tool_result", dtc.name)>>, "dev_iter")
    /\ UNCHANGED <<cfgVars, funcVars, toolVars, modeVars, countVars, provVars, roundVars, boundVars,
                   history, user_input, attempt, dev_output, dev_calls, last_result,
                   feedback, task_result, reviews>>

\* last_result = dev_output, then the Reviewer phase up to its first yield;
\* without a reviewer role the work is accepted
ReviewStart ==
    /\ pc = "review"
    /\ last_result' = dev_output
    /\ IF ~ReviewerConfigured(roles)
       THEN /\ task_result' = TaskResult("success", dev_output, <<"Skipped (No Reviewer)">>)
            /\ Silent(abort_flag, "deleg_done")
       ELSE /\ task_result' = task_result
            /\ DeliverAny(abort_flag, <<SessionEvent("log", "Reviewing work...")>>,
                          "rev_call")
    /\ invoked' = NoCall
    /\ UNCHANGED <<cfgVars, funcVars, toolVars, modeVars, countVars, provVars, roundVars, boundVars,
                   history, user_input, current_history, attempt, dev_i, dev_output,
                   dev_calls, dev_idx, feedback, reviews>>

\* the streamed answer of the Reviewer model
ReviewerReply ==
    /\ pc = "rev_call"
    /\ sub_work > 0
    /\ sub_work' = sub_work - 1
    /\ \E fb \in models.rev : feedback' = fb
    /\ reviews' = reviews + 1
    /\ DeliverAny(abort_flag, <<SessionEvent("streaming", "chunk"),
                                SessionEvent("stats", "")>>, "rev_verdict")
    /\ invoked' = NoCall
    /\ UNCHANGED <<cfgVars, funcVars, toolVars, modeVars, countVars, provVars, roundVars, turns,
                   work, next_id, history, user_input, current_history, attempt, dev_i,
                   dev_output, dev_calls, dev_idx, last_result, task_result>>

\* the stream of the Reviewer model fails: "Reviewer Error", break, failure
ReviewerError ==
    /\ pc = "rev_call"
    /\ sub_work > 0
    /\ models.fail
    /\ sub_work' = sub_work - 1
    /\ task_result' = TaskResult("failure", last_result, <<"Max retries reached">>)
    /\ DeliverAny(abort_flag, <<SessionEvent("error", "Reviewer Error")>>, "deleg_done")
    /\ invoked' = NoCall
    /\ UNCHANGED <<cfgVars, funcVars, toolVars, modeVars, countVars, provVars, roundVars, turns,
                   work, next_id, history, user_input, current_history, attempt, dev_i,
                   dev_output, dev_calls, dev_idx, last_result, feedback,
                   reviews>>

\* the verdict on the Reviewer's answer
ReviewerVerdict ==
    /\ pc = "rev_verdict"
    /\ IF ReviewerApproves(feedback)
       THEN /\ task_result' = TaskResult("success", last_result, feedback)
            /\ DeliverAny(abort_flag,
                          <<SessionEvent("log", "Task Verified & Approved!")>>,
                          "deleg_done")
       ELSE /\ task_result' = task_result
            /\ DeliverAny(abort_flag,
                          <<SessionEvent("log", "Verification Failed. Retrying")>>,
                          "rev_feedback")
    /\ invoked' = NoCall
    /\ UNCHANGED <<cfgVars, funcVars, toolVars, modeVars, countVars, provVars, roundVars, boundVars,
                   history, user_input, current_history, attempt, dev_i, dev_output,
                   dev_calls, dev_idx, last_result, feedback, reviews>>

\* the feedback goes to the Developer conversation, attempt += 1
ReviewerFeedback ==
    /\ pc = "rev_feedback"
    /\ current_history' = Append(current_history, FeedbackMsg(feedback))
    /\ attempt' = attempt + 1
    /\ Silent(abort_flag, "attempt")
    /\ invoked' = NoCall
    /\ UNCHANGED <<cfgVars, funcVars, toolVars, modeVars, countVars, provVars, roundVars, boundVars,
                   history, user_input, dev_i, dev_output, dev_calls, dev_idx,
                   last_result, feedback, task_result, reviews>>

\* back in the delegate_task branch: the todo update and the final report
DelegationDone ==
    /\ pc = "deleg_done"
    /\ result_str' = <<"Final Report from Developer/Reviewer Team:">>
                        \o task_result.summary \o <<"Verification:">>
                        \o task_result.verification_result
    /\ DeliverAny(abort_flag,
                  <<SessionEvent("todo_update",
                                 IF task_result.status = "success"
                                 THEN "completed" ELSE "failed"),
                    SessionEvent("text", "FINAL REPORT")>>, "append")
    /\ NoDelegation
    /\ invoked' = NoCall
    /\ UNCHANGED <<cfgVars, funcVars, toolVars, modeVars, countVars, provVars, round,
                   response_msg, tc_idx, active_tools, boundVars, history, user_input>>

Next ==
    \/ ProcessUserInput
    \/ AutoApprovedAnswer
    \/ ExecuteBanner
    \/ ReviseBanner
    \/ TextBanner
    \/ AppendUser
    \/ Return
    \/ Abort
    \/ AbortReturn
    \/ RoundStart
    \/ GatewayReply
    \/ GatewayError
    \/ Failover
    \/ SwitchProvider
    \/ Respond
    \/ DetectTextQuestion
    \/ Rebuke
    \/ AskUser
    \/ ToolCallEvent
    \/ ExecOther
    \/ ExecTool
    \/ ExecDelegate
    \/ AppendResult
    \/ DelegationStart
    \/ AttemptStart
    \/ DevIteration
    \/ DevReply
    \/ DevError
    \/ DevParse
    \/ DevToolCall
    \/ DevExec
    \/ ReviewStart
    \/ ReviewerReply
    \/ ReviewerError
    \/ ReviewerVerdict
    \/ ReviewerFeedback
    \/ DelegationDone

Spec == Init /\ [][Next]_vars

\* the steps of the generator of a turn: the consumer's loop
\* `for event in session.process_user_input(user_msg)` resumes it after every
\* event until it is exhausted
TurnStep ==
    \/ AutoApprovedAnswer
    \/ ExecuteBanner
    \/ ReviseBanner
    \/ TextBanner
    \/ AppendUser
    \/ AbortReturn
    \/ RoundStart
    \/ GatewayReply
    \/ GatewayError
    \/ Failover
    \/ SwitchProvider
    \/ Respond
    \/ DetectTextQuestion
    \/ Rebuke
    \/ AskUser
    \/ ToolCallEvent
    \/ ExecOther
    \/ ExecTool
    \/ ExecDelegate
    \/ AppendResult
    \/ DelegationStart
    \/ AttemptStart
    \/ DevIteration
    \/ DevReply
    \/ DevError
    \/ DevParse
    \/ DevToolCall
    \/ DevExec
    \/ ReviewStart
    \/ ReviewerReply
    \/ ReviewerError
    \/ ReviewerVerdict
    \/ ReviewerFeedback
    \/ DelegationDone

\* a turn under way is resumed again and again
LiveSpec == Spec /\ WF_vars(TurnStep)

(***************************************************************************)
(* _get_tools_for_mode on its own: every mode, every role and every tool   *)
(* list, one application of the filter.                                    *)
(***************************************************************************)
InitTools ==
    /\ auto_approve = FALSE
    /\ role_name \in Roles \cup {"reviewer"}
    /\ autonomy_level = "balanced"
    /\ roles = Roles \cup {"reviewer"}
    /\ sudo_tools = {}
    /\ allowed_tools \in AllowedToolSets
    /\ llm_tools \in SUBSET AllTools
    /\ session_mode \in SessionMode
    /\ history = <<SystemMsg(SystemPrompt(role_name))>>
    /\ waiting_tool_id = NoId
    /\ question_context = NoContext
    /\ pending_text_question = FALSE
    /\ ask_user_count = 0
    /\ post_approval_ask_count = 0
    /\ delegation_count = 0
    /\ abort_flag = FALSE
    /\ active_provider = RoleProvider(role_name)
    /\ pc = "idle"
    /\ user_input = ""
    /\ round = 1
    /\ tried_providers = {}
    /\ response_msg = NoMessage
    /\ tc_idx = 1
    /\ result_str = <<>>
    /\ active_tools = {}
    /\ current_history = <<>>
    /\ attempt = 1
    /\ dev_i = 1
    /\ dev_output = <<>>
    /\ dev_calls = <<>>
    /\ dev_idx = 1
    /\ last_result = <<>>
    /\ feedback = <<>>
    /\ task_result = NoResult
    /\ reviews = 0
    /\ emitted = <<>>
    /\ logged = <<>>
    /\ last_event = NoEvent
    /\ invoked = NoCall
    /\ turns = 0
    /\ work = 0
    /\ sub_work = 0
    /\ models = AnyModels
    /\ can_abort = FALSE
    /\ next_id = 1
    /\ active_model_id = RoleModel(role_name)
    /\ gateway_call = NoGatewayCall
    /\ sub_loops = 0
    /\ optimized_history = <<>>
    /\ reoptimized_history = <<>>
    /\ GatewayIdle
    /\ StreamIdle
    /\ TransportIdle

\* active_tools = self._get_tools_for_mode()
ApplyToolFilter ==
    /\ pc = "idle"
    /\ pc' = "filtered"
    /\ active_tools' = GetToolsForMode(session_mode, role_name, llm_tools)
    /\ UNCHANGED <<cfgVars, funcVars, toolVars, modeVars, countVars, provVars, round, response_msg,
                   tc_idx, result_str, boundVars, delegVars, history, abort_flag,
                   can_abort, user_input, emitted, logged, last_event, invoked>>

NextTools == ApplyToolFilter

SpecTools == InitTools /\ [][NextTools]_vars

(***************************************************************************)
(* _prune_history on its own.  Here the content of a message is a sequence *)
(* of pieces, a piece being n characters of one kind, so that len() and    *)
(* the slices content[:200] and content[-200:] are computed on character   *)
(* counts.                                                                 *)
(***************************************************************************)
Piece(c, n) == [c |-> c, n |-> n]

\* len(content)
RECURSIVE StrLen(_)
StrLen(text) == IF text = <<>> THEN 0 ELSE Head(text).n + StrLen(Tail(text))

\* content[:k]
RECURSIVE Take(_, _)
Take(text, k) ==
    IF k = 0 \/ text = <<>> THEN <<>>
    ELSE IF Head(text).n <= k
         THEN <<Head(text)>> \o Take(Tail(text), k - Head(text).n)
         ELSE <<Piece(Head(text).c, k)>>

\* content[k:]
RECURSIVE Drop(_, _)
Drop(text, k) ==
    IF text = <<>> THEN <<>>
    ELSE IF k = 0 THEN text
    ELSE IF Head(text).n <= k
         THEN Drop(Tail(text), k - Head(text).n)
         ELSE <<Piece(Head(text).c, Head(text).n - k)>> \o Tail(text)

\* content[-k:]
TakeLast(text, k) == Drop(text, IF StrLen(text) > k THEN StrLen(text) - k ELSE 0)

\* len(str(n))
RECURSIVE Digits(_)
Digits(n) == IF n < 10 THEN 1 ELSE 1 + Digits(n \div 10)

\* "... [TRUNCATED: {len(content)} chars] ..."
Marker(n) == Piece(<<"... [TRUNCATED: ", n, " chars] ...">>, 16 + Digits(n) + 11)

\* faulty variant of Truncated: keeps 250 characters on either side
TruncatedWide(content) ==
    Take(content, 250) \o <<Marker(StrLen(content))>> \o TakeLast(content, 250)

\* f"{content[:200]}... [TRUNCATED: {len(content)} chars] ...{content[-200:]}"
Truncated(content) ==
    Take(content, TruncateKeep) \o <<Marker(StrLen(content))>>
        \o TakeLast(content, TruncateKeep)

\* new_msg = msg.copy(); new_msg["content"] = ...
TruncatedCopy(msg) == [msg EXCEPT !.content = Truncated(msg.content)]

\* faulty variant of Recent: the window is one message shorter
RecentButOne(i, total, keep) == i - 1 > total - keep

\* if i >= total_msgs - keep_last_n, i counted from 1
Recent(i, total, keep) == i - 1 >= total - keep

\* faulty variant of LongContent: 500 characters are too many already
LongContentInclusive(content) == StrLen(content) >= TruncateOver

\* if len(content) > 500
LongContent(content) == StrLen(content) > TruncateOver

\* faulty variant of PruneStep: old messages of every role are truncated
PruneStepAnyRole(st, i, total, keep) ==
    LET msg == st.history[i] IN
    IF msg.role = "system" THEN [st EXCEPT !.pruned = Append(@, msg)]
    ELSE IF Recent(i, total, keep) THEN [st EXCEPT !.pruned = Append(@, msg)]
    ELSE IF LongContent(msg.content)
         THEN [st EXCEPT !.pruned = Append(@, TruncatedCopy(msg))]
         ELSE [st EXCEPT !.pruned = Append(@, msg)]

\* one pass of `for i, msg in enumerate(history)`, i counted from 1; st holds
\* the list under construction and the list passed in, which no statement of
\* the pass writes to
PruneStep(st, i, total, keep) ==
    LET msg == st.history[i] IN
    IF msg.role = "system" THEN [st EXCEPT !.pruned = Append(@, msg)]
    ELSE IF Recent(i, total, keep) THEN [st EXCEPT !.pruned = Append(@, msg)]
    ELSE IF msg.role = "tool"
         THEN IF LongContent(msg.content)
              THEN [st EXCEPT !.pruned = Append(@, TruncatedCopy(msg))]
              ELSE [st EXCEPT !.pruned = Append(@, msg)]
         ELSE [st EXCEPT !.pruned = Append(@, msg)]

\* for i, msg in enumerate(history): the passes from the i-th on
RECURSIVE PruneLoop(_, _, _, _)
PruneLoop(st, i, total, keep) ==
    IF i > total THEN st
    ELSE PruneLoop(PruneStep(st, i, total, keep), i + 1, total, keep)

\* _prune_history(history, keep_last_n): the returned list and the list
\* passed in as it is after the call
PruneHistory(h, keep) == PruneLoop([pruned |-> <<>>, history |-> h], 1, Len(h), keep)

\* the messages of the histories to prune
ShortSystem == SystemMsg(<<Piece("a", 40)>>)
LongSystem == SystemMsg(<<Piece("a", 300), Piece("b", 900)>>)
ShortUser == UserMsg(<<Piece("a", 20)>>)
LongAssistant == AssistantMsg(<<Piece("a", 250), Piece("b", 350)>>, <<>>)
ToolOutput(a, b, c) ==
    ToolMsg("call_1", "read_file", <<Piece("a", a), Piece("b", b), Piece("c", c)>>)
PruneMsgs ==
    {ShortSystem, LongSystem, ShortUser, LongAssistant,
     ToolMsg("call_1", "read_file", <<Piece("a", 10)>>),
     ToolOutput(200, 100, 200), ToolOutput(200, 101, 200), ToolOutput(150, 1700, 150)}

\* the last messages of the histories to prune
RecentTails ==
    {<<>>,
     <<ShortUser>>,
     <<ToolOutput(200, 101, 200), ShortUser, LongAssistant, ToolOutput(200, 100, 200),
       ShortUser>>,
     <<ShortUser, LongAssistant, ToolOutput(150, 1700, 150), ShortUser, LongAssistant,
       ToolOutput(200, 101, 200)>>,
     <<ShortUser, ShortSystem, ToolOutput(150, 1700, 150), LongSystem, LongAssistant,
       ToolOutput(200, 101, 200)>>,
     <<ShortSystem, ShortSystem, LongSystem, ShortSystem, ShortSystem, LongSystem>>}

OldMessages == UNION {[1..n -> PruneMsgs] : n \in 0..MaxOld}

InitPrune ==
    /\ auto_approve = FALSE
    /\ role_name = "architect"
    /\ autonomy_level = "balanced"
    /\ roles = Roles
    /\ sudo_tools = {}
    /\ allowed_tools = "none"
    /\ llm_tools = AllTools
    /\ session_mode = PLAN
    /\ \E old \in OldMessages, tail \in RecentTails : history = old \o tail
    /\ waiting_tool_id = NoId
    /\ question_context = NoContext
    /\ pending_text_question = FALSE
    /\ ask_user_count = 0
    /\ post_approval_ask_count = 0
    /\ delegation_count = 0
    /\ abort_flag = FALSE
    /\ active_provider = RoleProvider(role_name)
    /\ pc = "round"
    /\ user_input = ""
    /\ round = 1
    /\ tried_providers = {}
    /\ response_msg = NoMessage
    /\ tc_idx = 1
    /\ result_str = <<>>
    /\ active_tools = {}
    /\ current_history = <<>>
    /\ attempt = 1
    /\ dev_i = 1
    /\ dev_output = <<>>
    /\ dev_calls = <<>>
    /\ dev_idx = 1
    /\ last_result = <<>>
    /\ feedback = <<>>
    /\ task_result = NoResult
    /\ reviews = 0
    /\ emitted = <<>>
    /\ logged = <<>>
    /\ last_event = NoEvent
    /\ invoked = NoCall
    /\ turns = 0
    /\ work = 0
    /\ sub_work = 0
    /\ models = AnyModels
    /\ can_abort = FALSE
    /\ next_id = 1
    /\ active_model_id = RoleModel(role_name)
    /\ gateway_call = NoGatewayCall
    /\ sub_loops = 0
    /\ optimized_history = <<>>
    /\ reoptimized_history = <<>>
    /\ GatewayIdle
    /\ StreamIdle
    /\ TransportIdle

\* optimized_history = self._prune_history(self.history)
Optimize ==
    /\ pc = "round"
    /\ pc' = "pruned"
    /\ LET out == PruneHistory(history, keep_last_n) IN
         /\ optimized_history' = out.pruned
         /\ history' = out.history
    /\ UNCHANGED <<cfgVars, toolVars, modeVars, countVars, provVars, round, response_msg,
                   tc_idx, result_str, boundVars, delegVars, active_tools, abort_flag,
                   can_abort, user_input, emitted, logged, last_event, invoked,
                   reoptimized_history, msgVars, streamVars, rpcVars>>

\* self._prune_history(optimized_history): the function applied to its own
\* result
OptimizeAgain ==
    /\ pc = "pruned"
    /\ pc' = "repruned"
    /\ LET out == PruneHistory(optimized_history, keep_last_n) IN
         /\ reoptimized_history' = out.pruned
         /\ optimized_history' = out.history
    /\ UNCHANGED <<cfgVars, toolVars, modeVars, countVars, provVars, round, response_msg,
                   tc_idx, result_str, boundVars, delegVars, active_tools, abort_flag,
                   can_abort, user_input, emitted, logged, last_event, invoked, history,
                   msgVars, streamVars, rpcVars>>

NextPrune ==
    \/ Optimize
    \/ OptimizeAgain

SpecPrune == InitPrune /\ [][NextPrune]_vars

(***************************************************************************)
(* The session between turns, for the specifications of single functions.  *)
(***************************************************************************)
SessionAtRest ==
    /\ auto_approve = FALSE
    /\ role_name = "architect"
    /\ autonomy_level = "balanced"
    /\ roles = Roles
    /\ sudo_tools = {}
    /\ allowed_tools = "none"
    /\ llm_tools = AllTools
    /\ session_mode = PLAN
    /\ history = <<SystemMsg(SystemPrompt(role_name))>>
    /\ waiting_tool_id = NoId
    /\ question_context = NoContext
    /\ pending_text_question = FALSE
    /\ ask_user_count = 0
    /\ post_approval_ask_count = 0
    /\ delegation_count = 0
    /\ abort_flag = FALSE
    /\ active_provider = RoleProvider(role_name)
    /\ pc = "idle"
    /\ user_input = ""
    /\ round = 1
    /\ tried_providers = {}
    /\ response_msg = NoMessage
    /\ tc_idx = 1
    /\ result_str = <<>>
    /\ active_tools = {}
    /\ current_history = <<>>
    /\ attempt = 1
    /\ dev_i = 1
    /\ dev_output = <<>>
    /\ dev_calls = <<>>
    /\ dev_idx = 1
    /\ last_result = <<>>
    /\ feedback = <<>>
    /\ task_result = NoResult
    /\ reviews = 0
    /\ emitted = <<>>
    /\ logged = <<>>
    /\ last_event = NoEvent
    /\ invoked = NoCall
    /\ turns = 0
    /\ work = 0
    /\ sub_work = 0
    /\ models = AnyModels
    /\ can_abort = FALSE
    /\ next_id = 1
    /\ active_model_id = RoleModel(role_name)
    /\ gateway_call = NoGatewayCall
    /\ sub_loops = 0
    /\ optimized_history = <<>>
    /\ reoptimized_history = <<>>

sessionVars ==
    <<cfgVars, toolVars, modeVars, countVars, provVars, roundVars, boundVars, delegVars,
      pruneVars, history, abort_flag, can_abort, user_input, emitted, logged, last_event, invoked>>

(***************************************************************************)
(* ProviderManager.chat_complete up to the call of litellm: the messages   *)
(* are made OctopusMessage objects, sanitized under xml_fallback, and      *)
(* exported again.  An Optional value is a sequence of at most one element *)
(* (None is the empty one); a dict is a function on the keys it has.       *)
(***************************************************************************)
None == <<>>
Some(v) == <<v>>

\* msg.get(k) / a field that the constructor leaves at its default None
Field(d, k) == IF k \in DOMAIN d THEN d[k] ELSE None

\* ToolCall(**c): id is Optional, type defaults to "function"
ToolCallFromDict(c) ==
    [id |-> Field(c, "id"),
     type |-> IF "type" \in DOMAIN c THEN c.type ELSE "function",
     function |-> [name |-> c.function.name, arguments |-> c.function.arguments]]

\* OctopusMessage.from_any(msg) for a dict: cls(**msg)
FromAny(d) ==
    [role |-> d.role,
     content |-> Field(d, "content"),
     tool_calls |-> IF Field(d, "tool_calls") = None THEN None
                    ELSE Some([i \in 1..Len(d.tool_calls[1]) |->
                                  ToolCallFromDict(d.tool_calls[1][i])]),
     tool_call_id |-> Field(d, "tool_call_id"),
     name |-> Field(d, "name")]

\* model_dump(exclude_none=True) of a ToolCall
ToolCallToDict(c) ==
    [k \in {"type", "function"} \cup (IF c.id = None THEN {} ELSE {"id"}) |-> c[k]]

\* OctopusMessage.to_dict: model_dump(exclude_none=True)
ToDict(m) ==
    [k \in {"role"} \cup {f \in {"content", "tool_calls", "tool_call_id", "name"} :
                              m[f] # None} |->
        IF k = "tool_calls"
        THEN Some([i \in 1..Len(m.tool_calls[1]) |-> ToolCallToDict(m.tool_calls[1][i])])
        ELSE m[k]]

\* f"<tool_code>\n{{\n    \"name\": \"{fname}\",\n    \"arguments\": {fargs_str}\n}}\n</tool_code>"
ToolCode(c) ==
    <<"<tool_code>", "name:", c.function.name, "arguments:", c.function.arguments,
      "</tool_code>">>

\* "\n".join(xml_blocks)
RECURSIVE JoinLines(_)
JoinLines(blocks) ==
    IF blocks = <<>> THEN <<>>
    ELSE IF Len(blocks) = 1 THEN Head(blocks)
    ELSE Head(blocks) \o <<"\n">> \o JoinLines(Tail(blocks))

\* self.content or ""
ContentOrEmpty(m) == IF m.content = None THEN <<>> ELSE m.content[1]

\* sanitize_for_xml_fallback, 1: tool calls of an assistant message become text
SanitizeToolCalls(m) ==
    IF m.role = "assistant" /\ m.tool_calls # None /\ m.tool_calls[1] # <<>>
    THEN LET xml_blocks == [i \in 1..Len(m.tool_calls[1]) |-> ToolCode(m.tool_calls[1][i])]
             current_content == ContentOrEmpty(m)
             separator == IF current_content # <<>> THEN <<"\n\n">> ELSE <<>>
         IN  [m EXCEPT !.content = Some(current_content \o separator \o JoinLines(xml_blocks)),
                       !.tool_calls = None]
    ELSE m

\* faulty variant of SanitizeToolResult: the tool fields are not cleared
SanitizeToolResultKeepsFields(m) ==
    IF m.role = "tool"
    THEN [m EXCEPT !.role = "user",
                   !.content = Some(<<"[Tool Result: ",
                                      IF m.name \in {None, Some("")} THEN "unknown"
                                      ELSE m.name[1],
                                      "]", "\n">> \o ContentOrEmpty(m))]
    ELSE m

\* sanitize_for_xml_fallback, 2: a tool result becomes a user message
SanitizeToolResult(m) ==
    IF m.role = "tool"
    THEN [m EXCEPT !.role = "user",
                   !.content = Some(<<"[Tool Result: ",
                                      IF m.name \in {None, Some("")} THEN "unknown"
                                      ELSE m.name[1],
                                      "]", "\n">> \o ContentOrEmpty(m)),
                   !.tool_call_id = None,
                   !.name = None]
    ELSE m

\* OctopusMessage.sanitize_for_xml_fallback
SanitizeForXmlFallback(m) == SanitizeToolResult(SanitizeToolCalls(m))

\* strategy = provider.tool_mode, "auto" resolved by the provider's type
Strategy(p) ==
    IF p.tool_mode = "auto"
    THEN IF p.type \in {"openai", "anthropic", "deepseek"} THEN "native"
         ELSE IF p.type = "ollama" THEN "xml_fallback"
         ELSE "native"
    ELSE p.tool_mode

\* faulty variant of Sanitizes: every strategy sanitizes
SanitizesAlways(s) == TRUE

\* if strategy == "xml_fallback"
Sanitizes(s) == s = "xml_fallback"

\* _create_tool_system_prompt(tools)
ToolInstructions == <<"### TOOL USE INSTRUCTION ###">>

\* the index of the first system message, 0 if there is none
FirstSystem(msgs) ==
    IF \E i \in 1..Len(msgs) : msgs[i].role = "system"
    THEN CHOOSE i \in 1..Len(msgs) :
            /\ msgs[i].role = "system"
            /\ \A j \in 1..(i - 1) : msgs[j].role # "system"
    ELSE 0

\* 3. Apply Strategy: under xml_fallback the instructions go to the first
\* system message, or to a new one put first
ApplyStrategy(s, tools, msgs) ==
    IF tools /\ s = "xml_fallback"
    THEN IF FirstSystem(msgs) > 0
         THEN [msgs EXCEPT ![FirstSystem(msgs)] =
                  [@ EXCEPT !.content = Some(@[1] \o <<"\n\n">> \o ToolInstructions)]]
         ELSE <<[role |-> "system", content |-> Some(ToolInstructions)]>> \o msgs
    ELSE msgs

\* kwargs["messages"] of chat_complete
FinalMessages(p, tools, msgs) ==
    LET unified_messages == [i \in 1..Len(msgs) |-> FromAny(msgs[i])]
        sanitized == [i \in 1..Len(msgs) |->
                         IF Sanitizes(Strategy(p))
                         THEN SanitizeForXmlFallback(unified_messages[i])
                         ELSE unified_messages[i]]
    IN  ApplyStrategy(Strategy(p), tools, [i \in 1..Len(msgs) |-> ToDict(sanitized[i])])

\* the messages the session and the Developer loop keep in their histories
CallDict(id, n, args) ==
    [id |-> Some(id), type |-> "function", function |-> [name |-> n, arguments |-> args]]
HistoryDicts ==
    {[role |-> "system", content |-> Some(<<"You are the architect.">>)],
     [role |-> "user", content |-> Some(<<"Fix the tests.">>)],
     [role |-> "assistant", content |-> Some(<<"Here is the plan.">>), tool_calls |-> None],
     [role |-> "assistant", content |-> None,
      tool_calls |-> Some(<<CallDict("call_1", "read_file", "{\"path\": \"a.py\"}")>>)],
     [role |-> "assistant", content |-> Some(<<"Reading.">>),
      tool_calls |-> Some(<<CallDict("call_2", "read_file", "{\"path\": \"a.py\"}"),
                            CallDict("call_3", "run_shell_command", "{\"command\": \"pytest\"}")>>)],
     [role |-> "assistant", content |-> Some(<<"Done.">>), tool_calls |-> Some(<<>>)],
     [role |-> "tool", tool_call_id |-> Some("call_1"), name |-> Some("read_file"),
      content |-> Some(<<"print('hello')">>)],
     [role |-> "tool", tool_call_id |-> Some("call_unknown"), content |-> Some(<<>>)]}

ProviderConfigs ==
    [type : {"openai", "ollama", "custom"}, tool_mode : {"auto", "native", "xml_fallback"}]

InitGateway ==
    /\ SessionAtRest
    /\ provider \in ProviderConfigs
    /\ with_tools \in BOOLEAN
    /\ messages \in UNION {[1..n -> HistoryDicts] : n \in 0..MaxMsgs}
    /\ strategy = "none"
    /\ final_messages = <<>>
    /\ StreamIdle
    /\ TransportIdle

\* chat_complete(provider, model_id, messages, tools) up to completion(**kwargs)
ChatComplete ==
    /\ pc = "idle"
    /\ pc' = "sent"
    /\ strategy' = Strategy(provider)
    /\ final_messages' = FinalMessages(provider, with_tools, messages)
    /\ UNCHANGED <<cfgVars, toolVars, modeVars, countVars, provVars, round, response_msg,
                   tc_idx, result_str, boundVars, delegVars, active_tools, abort_flag,
                   can_abort, user_input, emitted, logged, last_event, invoked, history,
                   pruneVars, provider, with_tools, messages, streamVars, rpcVars>>

NextGateway == ChatComplete

SpecGateway == InitGateway /\ [][NextGateway]_vars

(***************************************************************************)
(* A streamed answer: ProviderManager.chat_complete_stream under           *)
(* xml_fallback with tools, and the two loops of the session that consume  *)
(* it.  Text is a sequence of fragments; the tags are made of the          *)
(* fragments at whose borders a provider may split them.                   *)
(***************************************************************************)
OpenTag == <<"<to", "ol", "_code>">>
CloseTag == <<"</tool_", "code>">>
ToolJson == "{\"name\": \"read_file\", \"arguments\": {\"path\": \"a.py\"}}"

\* what a model may answer
Responses ==
    {<<"Here is the plan.">>,
     OpenTag \o <<ToolJson>> \o CloseTag,
     <<"Reading.", " ">> \o OpenTag \o <<ToolJson>> \o CloseTag \o <<" ", "Done.">>,
     <<"Sure.", " ">> \o OpenTag \o <<"read a.py">> \o CloseTag}

\* the ways to cut a text into at most n deltas, none of them empty
RECURSIVE Splits(_, _)
Splits(text, n) ==
    IF text = <<>> THEN {<<>>}
    ELSE IF n = 0 THEN {}
    ELSE UNION {{<<SubSeq(text, 1, k)>> \o rest :
                    rest \in Splits(SubSeq(text, k + 1, Len(text)), n - 1)} :
                k \in 1..Len(text)}

\* the first place where p stands in text from place i on, 0 if there is none
RECURSIVE Find(_, _, _)
Find(p, text, i) ==
    IF i + Len(p) - 1 > Len(text) THEN 0
    ELSE IF SubSeq(text, i, i + Len(p) - 1) = p THEN i
    ELSE Find(p, text, i + 1)

\* p in text
Occurs(p, text) == Find(p, text, 1) > 0

\* re.sub(r'<tool_code>.*?</tool_code>', '', content, flags=re.DOTALL)
RECURSIVE RemoveSpans(_)
RemoveSpans(text) ==
    LET open == Find(OpenTag, text, 1)
        close == IF open = 0 THEN 0 ELSE Find(CloseTag, text, open + Len(OpenTag))
    IN  IF close = 0 THEN text
        ELSE SubSeq(text, 1, open - 1)
                \o RemoveSpans(SubSeq(text, close + Len(CloseTag), Len(text)))

\* re.findall(r'<tool_code>(.*?)</tool_code>', content, re.DOTALL)
RECURSIVE FindSpans(_)
FindSpans(text) ==
    LET open == Find(OpenTag, text, 1)
        close == IF open = 0 THEN 0 ELSE Find(CloseTag, text, open + Len(OpenTag))
    IN  IF close = 0 THEN <<>>
        ELSE <<SubSeq(text, open + Len(OpenTag), close - 1)>>
                \o FindSpans(SubSeq(text, close + Len(CloseTag), Len(text)))

\* _parse_xml_tool_calls: the spans that json.loads accepts and that have a
\* name and arguments
ParseXmlToolCalls(text) == SelectSeq(FindSpans(text), LAMBDA span : span = <<ToolJson>>)

\* str.strip() of a text of fragments
RECURSIVE StripSpace(_)
StripSpace(text) ==
    IF text = <<>> THEN <<>>
    ELSE IF Head(text) = " " THEN StripSpace(Tail(text))
    ELSE IF text[Len(text)] = " " THEN StripSpace(SubSeq(text, 1, Len(text) - 1))
    ELSE text

\* 5. Post-process for xml_fallback: the message of the done event
DoneMessage(content) ==
    IF content # <<>> /\ Occurs(OpenTag, content) /\ ParseXmlToolCalls(content) # <<>>
    THEN [content |-> StripSpace(RemoveSpans(content)),
          tool_calls |-> ParseXmlToolCalls(content)]
    ELSE [content |-> content, tool_calls |-> <<>>]

\* if "<tool_code>" in content or "<tool" in content
OpensXml(content) == Occurs(OpenTag, content) \/ Occurs(<<"<to", "ol">>, content)

\* if "</tool_code>" in content
ClosesXml(content) == Occurs(CloseTag, content)

InitStream ==
    /\ SessionAtRest
    /\ GatewayIdle
    /\ TransportIdle
    /\ consumer \in {"orchestrator", "developer"}
    /\ \E r \in Responses : deltas \in Splits(r, MaxDeltas)
    /\ accumulated_content = <<>>
    /\ inside_xml = FALSE
    /\ xml_buffer = <<>>
    /\ delivered = <<>>
    /\ done_message = [content |-> <<>>, tool_calls |-> <<>>]

\* one delta of the provider: chat_complete_stream yields a chunk event and
\* the turn driver's loop filters it
OrchestratorChunk ==
    /\ pc = "idle"
    /\ consumer = "orchestrator"
    /\ deltas # <<>>
    /\ LET content == Head(deltas)
           inside == inside_xml \/ OpensXml(content)
       IN  /\ accumulated_content' = accumulated_content \o content
           /\ IF inside
              THEN /\ inside_xml' = ~ClosesXml(content)
                   /\ xml_buffer' = IF ClosesXml(content) THEN <<>>
                                    ELSE xml_buffer \o content
                   /\ delivered' = delivered
              ELSE /\ inside_xml' = FALSE
                   /\ xml_buffer' = xml_buffer
                   /\ delivered' = Append(delivered, content)
    /\ deltas' = Tail(deltas)
    /\ UNCHANGED <<sessionVars, pc, msgVars, rpcVars, consumer, done_message>>

\* one delta of the provider: chat_complete_stream yields a chunk event and
\* the Developer loop hands it on
DeveloperChunk ==
    /\ pc = "idle"
    /\ consumer = "developer"
    /\ deltas # <<>>
    /\ accumulated_content' = accumulated_content \o Head(deltas)
    /\ delivered' = Append(delivered, Head(deltas))
    /\ deltas' = Tail(deltas)
    /\ UNCHANGED <<sessionVars, pc, msgVars, rpcVars, consumer, inside_xml, xml_buffer,
                   done_message>>

\* the stream is over: the done event with the message built from the chunks
StreamDone ==
    /\ pc = "idle"
    /\ consumer # "none"
    /\ deltas = <<>>
    /\ pc' = "streamed"
    /\ done_message' = DoneMessage(accumulated_content)
    /\ UNCHANGED <<sessionVars, msgVars, rpcVars, consumer, deltas, accumulated_content,
                   inside_xml, xml_buffer, delivered>>

NextStream ==
    \/ OrchestratorChunk
    \/ DeveloperChunk
    \/ StreamDone

SpecStream == InitStream /\ [][NextStream]_vars

(***************************************************************************)
(* The Transport: JSONRPCClient of mcp/protocol.py, the tool server at the *)
(* other end of its pipes, and the threads that call it.  A line is a      *)
(* record; a line with an id and a method is a request, one with an id and *)
(* no method a reply, one with a method and no id a notification.          *)
(***************************************************************************)
\* the threads that call one client
Threads == {"t1", "t2"}

\* a request line: json.dumps of the message call_tool builds
Request(id, method) == [id |-> Some(id), method |-> Some(method)]

\* a notification line
Notification(method) == [id |-> None, method |-> Some(method)]

\* a reply line of the tool server
Response(id) == [id |-> Some(id), method |-> None]

\* faulty variant of LockFree: the lock is taken whoever holds it
LockFreeAlways == TRUE

\* threading.Lock: a thread enters "with self._lock" when no thread holds it
LockFree == lock = "free"

\* msg.get("id") == expect_id
IsReplyTo(line, expect_id) == line.id = Some(expect_id)

\* a caller at rest
IdleCaller ==
    [pc |-> "idle", loaded |-> 0, req_id |-> 0, result |-> None, error |-> None,
     calls |-> 0]

\* what a failing tool server leaves on its stderr
StderrText == <<"Traceback">>

\* RuntimeError(f"Process exited unexpectedly. Stderr: {stderr_output}")
ProcessExited(stderr_output) == [kind |-> "RuntimeError", stderr |-> stderr_output]

\* what the write to the stdin of a child that is gone raises
BrokenPipe == [kind |-> "BrokenPipeError", stderr |-> <<>>]

\* the client after __init__, before start
InitTransport ==
    /\ SessionAtRest
    /\ GatewayIdle
    /\ StreamIdle
    /\ request_id = 0
    /\ lock = "free"
    /\ callers = [t \in Threads |-> IdleCaller]
    /\ stdin = <<>>
    /\ stdout = <<>>
    /\ \E n \in 0..MaxNotes :
           server = [running |-> FALSE, read |-> 0, notes |-> n, exited |-> FALSE,
                     stderr |-> <<>>, written |-> <<>>]
    /\ allocated = <<>>
    /\ dropped = <<>>
    /\ handled = <<>>

\* start: the child is spawned, the initialize request is sent with the first
\* id, its reply is read, and the initialized notification is sent.  The
\* session hands the client to nobody before start has returned, so no other
\* thread runs in between.
Start ==
    /\ ~server.running
    /\ ~server.exited
    /\ request_id' = request_id + 1
    /\ allocated' = Append(allocated, request_id + 1)
    /\ stdin' = stdin \o <<Request(request_id + 1, "initialize"),
                          Notification("notifications/initialized")>>
    /\ server' = [server EXCEPT !.running = TRUE, !.read = Len(stdin')]
    /\ UNCHANGED <<sessionVars, pc, msgVars, streamVars, lock, callers, stdout,
                   dropped, handled>>

\* call_tool is entered: _next_id is called
CallTool(t) ==
    /\ server.running
    /\ callers[t].pc = "idle"
    /\ callers[t].calls < MaxCalls
    /\ callers' = [callers EXCEPT ![t].pc = "next_id", ![t].result = None,
                                   ![t].error = None]
    /\ UNCHANGED <<sessionVars, pc, msgVars, streamVars, request_id, lock, stdin,
                   stdout, server, allocated, dropped, handled>>

\* _next_id: with self._lock
NextIdAcquire(t) ==
    /\ callers[t].pc = "next_id"
    /\ LockFree
    /\ lock' = t
    /\ callers' = [callers EXCEPT ![t].pc = "locked"]
    /\ UNCHANGED <<sessionVars, pc, msgVars, streamVars, request_id, stdin, stdout,
                   server, allocated, dropped, handled>>

\* _next_id: self._request_id is read for "+= 1"
NextIdLoad(t) ==
    /\ callers[t].pc = "locked"
    /\ callers' = [callers EXCEPT ![t].pc = "loaded", ![t].loaded = request_id]
    /\ UNCHANGED <<sessionVars, pc, msgVars, streamVars, request_id, lock, stdin,
                   stdout, server, allocated, dropped, handled>>

\* _next_id: the sum is stored, returned as the id, and the lock is released
NextIdStore(t) ==
    /\ callers[t].pc = "loaded"
    /\ request_id' = callers[t].loaded + 1
    /\ callers' = [callers EXCEPT ![t].pc = "send", ![t].req_id = request_id']
    /\ allocated' = Append(allocated, request_id')
    /\ lock' = "free"
    /\ UNCHANGED <<sessionVars, pc, msgVars, streamVars, stdin, stdout, server,
                   dropped, handled>>

\* _send: the request line is written to the child's stdin and flushed; the
\* lock is not held
Send(t) ==
    /\ callers[t].pc = "send"
    /\ ~server.exited
    /\ stdin' = Append(stdin, Request(callers[t].req_id, "tools/call"))
    /\ callers' = [callers EXCEPT ![t].pc = "read"]
    /\ UNCHANGED <<sessionVars, pc, msgVars, streamVars, request_id, lock, stdout,
                   server, allocated, dropped, handled>>

\* _send when the child is gone: the flush of the line fails and the error
\* leaves call_tool
SendBroken(t) ==
    /\ callers[t].pc = "send"
    /\ server.exited
    /\ callers' = [callers EXCEPT ![t].pc = "idle", ![t].error = Some(BrokenPipe),
                                   ![t].calls = @ + 1]
    /\ UNCHANGED <<sessionVars, pc, msgVars, streamVars, request_id, lock, stdin,
                   stdout, server, allocated, dropped, handled>>

\* _read_response: one readline of the child's stdout.  The reply with the
\* expected id is returned; any other line is dropped and the loop goes on.
ReadResponse(t) ==
    /\ callers[t].pc = "read"
    /\ stdout # <<>>
    /\ stdout' = Tail(stdout)
    /\ IF IsReplyTo(Head(stdout), callers[t].req_id)
         THEN /\ callers' = [callers EXCEPT ![t].pc = "idle",
                                            ![t].result = Some(Head(stdout)),
                                            ![t].calls = @ + 1]
              /\ UNCHANGED dropped
         ELSE /\ dropped' = Append(dropped, [by |-> t, line |-> Head(stdout)])
              /\ UNCHANGED callers
    /\ UNCHANGED <<sessionVars, pc, msgVars, streamVars, request_id, lock, stdin,
                   server, allocated, handled>>

\* _read_response: readline returns the empty string, the child has closed
\* its stdout; what is left on its stderr is read and raised
ReadEof(t) ==
    /\ callers[t].pc = "read"
    /\ stdout = <<>>
    /\ server.exited
    /\ callers' = [callers EXCEPT ![t].pc = "idle",
                                   ![t].error = Some(ProcessExited(server.stderr)),
                                   ![t].calls = @ + 1]
    /\ server' = [server EXCEPT !.stderr = <<>>]
    /\ UNCHANGED <<sessionVars, pc, msgVars, streamVars, request_id, lock, stdin,
                   stdout, allocated, dropped, handled>>

\* the tool server writes to its stderr and exits
ServerExit ==
    /\ server.running
    /\ ~server.exited
    /\ server' = [server EXCEPT !.exited = TRUE, !.stderr = StderrText,
                                !.written = StderrText]
    /\ UNCHANGED <<sessionVars, pc, msgVars, streamVars, request_id, lock, callers,
                   stdin, stdout, allocated, dropped, handled>>

\* the tool server writes a notification while a request is with it
ServerNotify ==
    /\ server.running
    /\ ~server.exited
    /\ server.read < Len(stdin)
    /\ server.notes > 0
    /\ stdout' = Append(stdout, Notification("notifications/tool_progress"))
    /\ server' = [server EXCEPT !.notes = @ - 1]
    /\ UNCHANGED <<sessionVars, pc, msgVars, streamVars, request_id, lock, callers,
                   stdin, allocated, dropped, handled>>

\* the tool server answers the next request on its stdin
ServerReply ==
    /\ server.running
    /\ ~server.exited
    /\ server.read < Len(stdin)
    /\ stdout' = Append(stdout, Response(stdin[server.read + 1].id[1]))
    /\ server' = [server EXCEPT !.read = @ + 1]
    /\ UNCHANGED <<sessionVars, pc, msgVars, streamVars, request_id, lock, callers,
                   stdin, allocated, dropped, handled>>

NextTransport ==
    \/ Start
    \/ \E t \in Threads : CallTool(t)
    \/ \E t \in Threads : NextIdAcquire(t)
    \/ \E t \in Threads : NextIdLoad(t)
    \/ \E t \in Threads : NextIdStore(t)
    \/ \E t \in Threads : Send(t)
    \/ \E t \in Threads : SendBroken(t)
    \/ \E t \in Threads : ReadResponse(t)
    \/ \E t \in Threads : ReadEof(t)
    \/ ServerExit
    \/ ServerNotify
    \/ ServerReply

SpecTransport == InitTransport /\ [][NextTransport]_vars

(***************************************************************************)
(* Properties.                                                             *)
(***************************************************************************)
\* C1 (as stated): every tool call the turn driver hands to a Transport or to
\* the Delegation Engine has its name in the mode-filtered tool set computed
\* for the round, and no write tool runs with the architect as acting role.
C1_DispatchWithinActiveTools ==
    (invoked.target # "none" /\ invoked.by = "driver") =>
        /\ invoked.name \in active_tools
        /\ ~(invoked.role = "architect" /\ invoked.name \in WRITE_TOOLS)

C3_ModeMovesForward ==
    /\ session_mode = PLAN
    /\ [][/\ session_mode' # session_mode =>
                \/ (session_mode = PLAN /\ session_mode' = EXECUTE)
                \/ (session_mode = EXECUTE /\ session_mode' = REVIEW)
          /\ pc = "done" => session_mode' = session_mode]_vars

\* C3 witness: a later turn has started with a new input in the EXECUTE mode
\* that an earlier turn left.
C3_LaterTurnInExecute ==
    /\ session_mode = EXECUTE
    /\ pc = "round"
    /\ round = 1
    /\ user_input = "refactor the parser"

\* C4: for every mode, role and tool list the active tool set is the tool
\* list restricted to the read-only tools plus ask_user in PLAN, to the
\* read-only tools plus delegate_task in EXECUTE for the architect, to
\* everything but ask_user in EXECUTE for another role, and to the read-only
\* tools in REVIEW.
C4_ActiveToolSet ==
    pc = "filtered" =>
        LET read_only == {"list_directory", "read_file", "glob", "search_file_content"}
        IN  active_tools =
              CASE session_mode = PLAN -> llm_tools \cap (read_only \cup {"ask_user"})
                [] session_mode = EXECUTE /\ role_name = "architect" ->
                      llm_tools \cap (read_only \cup {"delegate_task"})
                [] session_mode = EXECUTE /\ role_name # "architect" ->
                      llm_tools \ {"ask_user"}
                [] session_mode = REVIEW -> llm_tools \cap read_only

\* C4 witness: the filter has been applied for the architect in EXECUTE to a
\* tool list that holds a write tool, and has removed it.
C4_ArchitectWriteToolRemoved ==
    /\ pc = "filtered"
    /\ session_mode = EXECUTE
    /\ role_name = "architect"
    /\ "write_file" \in llm_tools
    /\ "write_file" \notin active_tools
    /\ "delegate_task" \in active_tools

\* C5 (as stated): a question event is emitted only for an ask_user call in
\* PLAN with reason plan_approval, and when the driver goes on to the next
\* round every ask_user call of the reply it has handled has a tool result
\* with its own tool-call id in the history.
C5_AskUserAskedOrRejected ==
    /\ (\E i \in 1..Len(emitted) : emitted[i].type = "question") =>
          (session_mode = PLAN /\ question_context = "plan_approval")
    /\ (pc = "round" /\ round > 1) =>
          \A i \in 1..Len(response_msg.tool_calls) :
             response_msg.tool_calls[i].name = "ask_user" =>
                \E j \in 1..Len(history) :
                   /\ history[j].role = "tool"
                   /\ history[j].tool_call_id = response_msg.tool_calls[i].id

\* C6 (as stated): with auto-approve off, the answer to an open plan_approval
\* question moves the session from PLAN to EXECUTE exactly when the trimmed,
\* lower-cased answer is one of yes, ok, proceed, go, start, approve,
\* approved, y, tak, sure.
C6_ApprovalWords ==
    [][(~auto_approve /\ pc = "idle" /\ waiting_tool_id # NoId
          /\ question_context = "plan_approval" /\ pc' # "idle") =>
          ((StripLower(user_input') \in
               {"yes", "ok", "proceed", "go", "start", "approve", "approved", "y", "tak",
                "sure"})
            <=> (session_mode = PLAN /\ session_mode' = EXECUTE))]_vars

\* C7 (as stated): the step that emits a question event ends the turn with
\* the id and the reason of the call remembered, no round runs while the
\* question is pending, and the step that takes the next user input appends
\* that input as the tool result for the pending id and clears the id.
C7_QuestionThenAnswer ==
    [][/\ (\E i \in 1..Len(emitted') : emitted'[i].type = "question") =>
             /\ pc' = "done"
             /\ waiting_tool_id' = response_msg.tool_calls[tc_idx].id
             /\ question_context' = response_msg.tool_calls[tc_idx].reason
       /\ waiting_tool_id # NoId => pc \in {"done", "idle"}
       /\ (waiting_tool_id # NoId /\ pc = "idle" /\ pc' # "idle") =>
             /\ history' = Append(history,
                                  ToolMsg(waiting_tool_id, "ask_user", <<user_input'>>))
             /\ user_input' \in UserInputs
             /\ waiting_tool_id' = NoId]_vars

\* C7 (amended): the step that emits a question event ends the turn with
\* the id and the reason of the call remembered, and no round runs while the
\* question is pending.  With auto-approve off the step that takes the next
\* user input appends that input as the tool result for the pending id and
\* clears the id.  With auto-approve on that step replaces the input by yes,
\* and the tool result for the pending id, with content yes, is appended and
\* the id cleared by the step after the auto-approve log event, unless the
\* turn is aborted while that event is delivered; the question then stays
\* pending.
C7_QuestionThenAnswerOrYes ==
    [][/\ (\E i \in 1..Len(emitted') : emitted'[i].type = "question") =>
             /\ pc' = "done"
             /\ waiting_tool_id' = response_msg.tool_calls[tc_idx].id
             /\ question_context' = response_msg.tool_calls[tc_idx].reason
       /\ waiting_tool_id # NoId => pc \in {"done", "idle", "answer"}
       /\ (waiting_tool_id # NoId /\ pc = "idle" /\ pc' # "idle" /\ ~auto_approve) =>
             /\ history' = Append(history,
                                  ToolMsg(waiting_tool_id, "ask_user", <<user_input'>>))
             /\ user_input' \in UserInputs
             /\ waiting_tool_id' = NoId
       /\ (waiting_tool_id # NoId /\ pc = "idle" /\ pc' # "idle" /\ auto_approve) =>
             /\ user_input' = "yes"
             /\ UNCHANGED <<history, waiting_tool_id>>
             /\ pc' = "answer" \/ (pc' = "done" /\ abort_flag')
       /\ (pc = "answer" /\ pc' # "answer") =>
             /\ history' = Append(history, ToolMsg(waiting_tool_id, "ask_user", <<"yes">>))
             /\ waiting_tool_id' = NoId]_vars

\* C7 witness: a question was asked and the next input, which approves
\* nothing, has been appended as the tool result for the pending id.
C7_AnswerAppended ==
    /\ pc = "revise_banner"
    /\ waiting_tool_id = NoId
    /\ history[Len(history)].role = "tool"
    /\ history[Len(history)].name = "ask_user"
    /\ history[Len(history)].content = <<user_input>>
    /\ \E j \in 1..Len(history) - 1 :
          /\ history[j].role = "assistant"
          /\ \E i \in 1..Len(history[j].tool_calls) :
                history[j].tool_calls[i].id = history[Len(history)].tool_call_id

C9_NoSuccessAfterPlaceholder ==
    task_result.status = "success" =>
        LET phrases == {"hello world", "lorem ipsum", "todo:", "fixme:", "placeholder",
                        "template content", "your content here", "add your",
                        "replace this"}
            users == {j \in 1..Len(current_history) : current_history[j].role = "user"}
            start == CHOOSE j \in users : \A k \in users : k <= j
        IN  \A j \in start..Len(current_history) :
               (current_history[j].role = "tool" /\ current_history[j].name = "read_file")
                  => \A p \in phrases :
                        ~Contains(LowerText(current_history[j].content), p)

\* C10 (as stated): a Reviewer response closes the delegation with success
\* exactly when it starts with the token APPROVED; every other response is
\* fed back to the Developer.
C10_SuccessIffStartsApproved ==
    LET starts == feedback # <<>> /\ feedback[1] = "APPROVED"
    IN  /\ (task_result.status = "success" /\ reviews > 0) => starts
        /\ pc = "rev_feedback" => ~starts

C12_DelegationQuota ==
    /\ [](sub_loops <= 3)
    /\ [][/\ (pc = "exec" /\ response_msg.tool_calls[tc_idx].name = "delegate_task"
               /\ sub_loops >= 3 /\ pc' # "exec") =>
                /\ pc' = "append" \/ (pc' = "done" /\ abort_flag')
                /\ result_str' = <<"ERROR: Exceeded maximum delegations to developer">>
                /\ emitted'[1] = SessionEvent("error", "Delegation limit reached")
                /\ invoked'.target = "none"
                /\ UNCHANGED <<sub_loops, reviews, current_history, task_result>>
          /\ (pc = "append" /\ pc' # "append" /\ result_str =
                   <<"ERROR: Exceeded maximum delegations to developer">>) =>
                history' = Append(history,
                                  ToolMsg(response_msg.tool_calls[tc_idx].id,
                                          "delegate_task", result_str))
          /\ (pc = "idle" /\ pc' # "idle") =>
                (sub_loops' = 0 /\ delegation_count' = 0)
          /\ sub_loops' > sub_loops =>
                (sub_loops' = sub_loops + 1 /\ delegation_count = sub_loops')]_vars

\* C12 witness: a fourth delegation was refused, and after a new user input a
\* Developer sub-loop has started again, the first of its turn.
C12_RefusedThenStartedAgain ==
    /\ pc = "dev_iter"
    /\ sub_loops = 1
    /\ \E j \in 1..Len(history) :
          /\ history[j].role = "tool"
          /\ history[j].name = "delegate_task"
          /\ history[j].content = <<"ERROR: Exceeded maximum delegations to developer">>

\* C13: the step that starts a Developer sub-loop sets the Developer
\* conversation to the Developer role's system prompt followed by the one user
\* message with the task specification; while the delegation runs no message
\* of the Orchestrator's history is in the Developer conversation (its first
\* message, the system prompt, apart when the active role is the developer
\* itself) and the Orchestrator's history does not change; the tool result of
\* delegate_task is appended by the driver after the engine has returned.
C13_IsolatedConversation ==
    /\ [](pc \in {"attempt", "dev_iter", "dev_call", "dev_parse", "dev_tool", "dev_exec",
                  "review", "rev_call", "rev_verdict", "rev_feedback", "deleg_done"} =>
            /\ Len(current_history) >= 2
            /\ current_history[1] = Msg("system", <<"system prompt", "developer">>,
                                         <<>>, "none", "")
            /\ current_history[2] = Msg("user", <<"TASK SPECIFICATION:",
                                                  "Execute this task.">>, <<>>, "none", "")
            /\ \A i \in 2..Len(current_history) : \A j \in 1..Len(history) :
                  current_history[i] # history[j]
            /\ \A j \in 2..Len(history) : current_history[1] # history[j])
    /\ [][/\ sub_loops' > sub_loops => Len(current_history') = 2
          /\ pc \in {"deleg", "attempt", "dev_iter", "dev_call", "dev_parse", "dev_tool",
                     "dev_exec", "review", "rev_call", "rev_verdict", "rev_feedback",
                     "deleg_done"} => history' = history
          /\ (pc = "append" /\ pc' # "append"
                /\ response_msg.tool_calls[tc_idx].name = "delegate_task") =>
                history' = Append(history,
                                  ToolMsg(response_msg.tool_calls[tc_idx].id,
                                          "delegate_task", result_str))]_vars

\* C13 witness: a delegation is about to call the Reviewer; the Developer
\* conversation has grown beyond its two first messages while the
\* Orchestrator's history holds the user's input and the delegating reply.
C13_DelegationUnderWay ==
    /\ pc = "rev_call"
    /\ Len(current_history) > 3
    /\ Len(history) >= 3
    /\ history[Len(history)].role = "assistant"
    /\ history[Len(history)].tool_calls[1].name = "delegate_task"

C15_FailoverKeepsModel ==
    [][/\ active_model_id' = active_model_id
       /\ (work' < work /\ gateway_call.failed) =>
             /\ gateway_call'.provider # gateway_call.provider
             /\ gateway_call'.provider \notin tried_providers
             /\ gateway_call.provider \in tried_providers
             /\ gateway_call'.model_id = gateway_call.model_id
       /\ work' < work =>
             /\ gateway_call'.provider = active_provider
             /\ gateway_call'.model_id = active_model_id
       /\ (pc = "switch" /\ pc' # "switch") =>
             /\ pc' = "call"
             /\ active_provider' # active_provider
             /\ active_provider' \in {"openai", "anthropic", "ollama_local"}
                                     \ tried_providers]_vars

\* C15 witness: after a failed call the retry has answered, on another
\* provider and with the role's model id, which is not the default model of
\* that provider.
C15_RetryAnswered ==
    /\ pc = "respond"
    /\ tried_providers # {}
    /\ ~gateway_call.failed
    /\ gateway_call.provider \notin tried_providers
    /\ gateway_call.model_id = "claude-3-5-sonnet-20241022"
    /\ gateway_call.provider = "openai"

\* C16: no call of the Gateway goes to a provider whose call failed earlier
\* in the same round; and the step that finds every configured provider
\* failed in the round emits the error event "No fallback available" and
\* ends the turn, whose last event is an error.
C16_NoProviderTwice ==
    /\ [](gateway_call.provider \notin gateway_call.earlier)
    /\ []((gateway_call.failed /\ gateway_call.earlier \cup {gateway_call.provider}
                                   = {"openai", "anthropic", "ollama_local"})
            => (pc \in {"failover", "done"} /\ last_event.type = "error"))
    /\ [][(pc = "failover" /\ pc' # "failover"
            /\ gateway_call.earlier \cup {gateway_call.provider}
                  = {"openai", "anthropic", "ollama_local"}) =>
             /\ pc' = "done"
             /\ emitted'[1] = SessionEvent("error", "No fallback available")]_vars

\* C16 witness: the three providers have failed one after the other in one
\* round and the turn has ended with the error event.
C16_AllProvidersFailed ==
    /\ pc = "done"
    /\ tried_providers = {"openai", "anthropic", "ollama_local"}
    /\ gateway_call.earlier = {"anthropic", "openai"}
    /\ last_event = SessionEvent("error", "No fallback available")

\* C17 (as stated): once the abort flag is set during a turn, no step calls
\* the Gateway for a further round and no step dispatches a further tool
\* call, of the driver or of the Developer sub-loop; and a turn that ends
\* with the flag set has the cancellation error as its last event.
C17_AbortEndsWithCancel ==
    /\ [][(abort_flag /\ pc # "idle") =>
             /\ work' = work
             /\ ~(pc = "round" /\ pc' = "call")
             /\ ~(pc = "dispatch" /\ pc' \in {"exec", "append"})
             /\ ~(pc = "dev_tool" /\ pc' = "dev_exec")
             /\ abort_flag']_vars
    /\ []((pc = "done" /\ abort_flag) =>
             last_event = SessionEvent("error", "Operation Cancelled by User."))

C19_PruneIdempotent ==
    pc = "repruned" => reoptimized_history = optimized_history

\* C19 witness: a history whose pruning truncated a tool message has been
\* pruned twice.
C19_TruncatedThenPrunedAgain ==
    /\ pc = "repruned"
    /\ \E i \in 1..Len(history) :
         /\ history[i].role = "tool"
         /\ optimized_history[i] # history[i]
         /\ StrLen(optimized_history[i].content) < StrLen(history[i].content)

\* C20: the pruned list has the length of the input and holds at every
\* position the input's message of that position, with at most the content
\* changed; non-tool messages, system messages among them, are the input's
\* messages themselves; the system messages come in their original order; and
\* the call leaves the list passed in as it was.
C20_PruneKeepsPositions ==
    /\ [](pc = "pruned" =>
            /\ Len(optimized_history) = Len(history)
            /\ \A i \in 1..Len(history) :
                 /\ i <= Len(optimized_history)
                 /\ [optimized_history[i] EXCEPT !.content = history[i].content]
                       = history[i]
                 /\ history[i].role # "tool" => optimized_history[i] = history[i]
            /\ SelectSeq(optimized_history, LAMBDA m : m.role = "system")
                 = SelectSeq(history, LAMBDA m : m.role = "system"))
    /\ [][pc = "round" /\ pc' = "pruned" => history' = history]_vars

\* C20 witness: a history with a long system message and a long assistant
\* message before its last six messages has been pruned, and a tool message
\* was truncated.
C20_LongMessagesPruned ==
    /\ pc = "pruned"
    /\ \E i, j, k \in 1..(Len(history) - keep_last_n) :
         /\ history[i].role = "system" /\ StrLen(history[i].content) > 500
         /\ history[j].role = "assistant" /\ StrLen(history[j].content) > 500
         /\ history[k].role = "tool" /\ optimized_history[k] # history[k]

\* C21: the last six non-system messages of the history are in
\* the pruned list as they are in the history, whatever system messages stand
\* among the last positions.
C21_LastNonSystemVerbatim ==
    pc = "pruned" =>
        \A i \in 1..Len(history) :
            (/\ history[i].role # "system"
             /\ Cardinality({j \in (i + 1)..Len(history) : history[j].role # "system"})
                  < keep_last_n)
            => optimized_history[i] = history[i]

\* C21, what _prune_history keeps instead: the messages at the last six
\* positions of the history, system messages counted, are in the pruned list
\* as they are in the history; these hold the last 6 - s non-system messages,
\* s being the number of system messages at those positions.
C21_LastPositionsVerbatim ==
    pc = "pruned" =>
        \A i \in 1..Len(history) :
            i > Len(history) - 6 => optimized_history[i] = history[i]

\* C21, the failing case: a pruned history with a system message and a long tool
\* message among its last six positions, and with a tool message that is one
\* of the last six non-system messages and was truncated.
C21_SystemAmongTheLast ==
    /\ pc = "pruned"
    /\ \E i, j \in (Len(history) - 5)..Len(history), k \in 1..(Len(history) - 6) :
         /\ i >= 1 /\ j >= 1
         /\ history[i].role = "system"
         /\ history[j].role = "tool" /\ StrLen(history[j].content) > 500
         /\ optimized_history[j] = history[j]
         /\ history[k].role = "tool"
         /\ Cardinality({n \in (k + 1)..Len(history) : history[n].role # "system"}) < 6
         /\ optimized_history[k] # history[k]

\* C22: a tool message before the last six positions is replaced if and only
\* if its content has more than 500 characters; the copy differs in its
\* content only, which is the first 200 characters, one marker naming the
\* original length, and the last 200 characters.
C22_OldToolOutputTruncated ==
    pc = "pruned" =>
        \A i \in 1..(Len(history) - 6) :
            history[i].role = "tool" =>
                LET old == history[i].content
                    new == optimized_history[i].content
                IN  IF StrLen(old) > 500
                    THEN /\ optimized_history[i] # history[i]
                         /\ [optimized_history[i] EXCEPT !.content = old] = history[i]
                         /\ Take(new, 200) = Take(old, 200)
                         /\ TakeLast(new, 200) = TakeLast(old, 200)
                         /\ Drop(Take(new, StrLen(new) - 200), 200)
                              = <<[c |-> <<"... [TRUNCATED: ", StrLen(old), " chars] ...">>,
                                   n |-> 27 + Digits(StrLen(old))]>>
                    ELSE optimized_history[i] = history[i]

\* C22 witness: a pruned history with tool messages of 500, of 501 and of
\* 2000 characters before its last six positions.
C22_OldToolOutputsOfAllSizes ==
    /\ pc = "pruned"
    /\ \E i, j, k \in 1..(Len(history) - 6) :
         /\ history[i].role = "tool" /\ StrLen(history[i].content) = 500
         /\ history[j].role = "tool" /\ StrLen(history[j].content) = 501
         /\ history[k].role = "tool" /\ StrLen(history[k].content) = 2000

\* C25: in the Orchestrator's history and in the Developer conversation of a
\* delegation every tool message follows an assistant message, with nothing
\* but tool messages in between, and carries the id of one of the tool calls
\* of that assistant message.
C25_ToolMessagesAnswerCalls ==
    \A h \in {history, current_history} :
        \A i \in 1..Len(h) :
            h[i].role = "tool" =>
                \E j \in 1..(i - 1) :
                    /\ h[j].role = "assistant"
                    /\ \A k \in (j + 1)..(i - 1) : h[k].role = "tool"
                    /\ \E c \in 1..Len(h[j].tool_calls) :
                          h[j].tool_calls[c].id = h[i].tool_call_id

\* C25 witness: the history holds the result of a tool call, and the
\* Developer conversation of a delegation holds the results of the two tool
\* calls of one assistant message.
C25_ResultsInBothHistories ==
    /\ \E i \in 2..Len(history) :
         history[i].role = "tool" /\ history[i - 1].role = "assistant"
    /\ \E i \in 3..Len(current_history) :
         /\ current_history[i].role = "tool"
         /\ current_history[i - 1].role = "tool"
         /\ current_history[i - 2].role = "assistant"

\* C23: under xml_fallback no message handed to the provider has role tool
\* and no assistant message has tool calls; a former tool message is a user
\* message that begins with [Tool Result: <name>] and has neither
\* tool_call_id nor name; and the content of a former assistant message with
\* tool calls begins with its old content and holds one tool_code block with
\* the name and the arguments of every call, in the order of the calls.
C23_SanitizedUnderFallback ==
    (pc = "sent" /\ strategy = "xml_fallback") =>
        LET off == Len(final_messages) - Len(messages) IN
        /\ off \in {0, 1}
        /\ \A i \in 1..Len(final_messages) :
             /\ final_messages[i].role # "tool"
             /\ (final_messages[i].role = "assistant"
                  /\ "tool_calls" \in DOMAIN final_messages[i])
                 => final_messages[i].tool_calls = <<<<>>>>
        /\ \A i \in 1..Len(messages) :
             LET old == messages[i]
                 new == final_messages[i + off]
             IN  /\ old.role = "tool" =>
                        /\ new.role = "user"
                        /\ SubSeq(new.content[1], 1, 3)
                             = <<"[Tool Result: ",
                                 IF "name" \in DOMAIN old THEN old.name[1] ELSE "unknown",
                                 "]">>
                        /\ DOMAIN new = {"role", "content"}
                 /\ (/\ old.role = "assistant"
                      /\ "tool_calls" \in DOMAIN old
                      /\ old.tool_calls \notin {<<>>, <<<<>>>>}) =>
                        LET calls == old.tool_calls[1]
                            text == new.content[1]
                            before == IF old.content = <<>> THEN <<>> ELSE old.content[1]
                        IN  /\ new.role = "assistant"
                            /\ SubSeq(text, 1, Len(before)) = before
                            /\ \E at \in [1..Len(calls) -> 1..Len(text)] :
                                  /\ \A c \in 1..Len(calls) :
                                        /\ at[c] > Len(before)
                                        /\ SubSeq(text, at[c], at[c] + 5)
                                             = <<"<tool_code>", "name:",
                                                 calls[c].function.name, "arguments:",
                                                 calls[c].function.arguments,
                                                 "</tool_code>">>
                                  /\ \A c \in 1..(Len(calls) - 1) : at[c] < at[c + 1]

\* C23 witness: messages with a tool result and with an assistant message of
\* two tool calls have been handed to a provider under xml_fallback.
C23_FallbackWithToolMessages ==
    /\ pc = "sent"
    /\ strategy = "xml_fallback"
    /\ \E i, j \in 1..Len(messages) :
         /\ messages[i].role = "tool"
         /\ messages[j].role = "assistant"
         /\ "tool_calls" \in DOMAIN messages[j]
         /\ messages[j].tool_calls # <<>>
         /\ Len(messages[j].tool_calls[1]) = 2

\* C24: under the native strategy every message handed to the provider has
\* the role, the content, the tool-call id, the name and the tool calls (ids,
\* function names, argument strings) of the message passed in.
C24_NativeKeepsMessages ==
    (pc = "sent" /\ strategy = "native") =>
        /\ Len(final_messages) = Len(messages)
        /\ \A i \in 1..Len(messages) :
             LET old == messages[i]
                 new == final_messages[i]
             IN  /\ new.role = old.role
                 /\ \A k \in {"content", "tool_call_id", "name"} :
                       Field(new, k) = Field(old, k)
                 /\ Field(new, "tool_calls") = <<>> <=> Field(old, "tool_calls") = <<>>
                 /\ Field(old, "tool_calls") # <<>> =>
                       /\ Len(new.tool_calls[1]) = Len(old.tool_calls[1])
                       /\ \A c \in 1..Len(old.tool_calls[1]) :
                             /\ Field(new.tool_calls[1][c], "id")
                                  = Field(old.tool_calls[1][c], "id")
                             /\ new.tool_calls[1][c].function
                                  = old.tool_calls[1][c].function

\* C24 witness: messages with a tool result and with an assistant message of
\* two tool calls have been handed to a provider under the native strategy,
\* chosen for a provider in "auto" mode, with tools.
C24_NativeWithToolMessages ==
    /\ pc = "sent"
    /\ strategy = "native"
    /\ provider.tool_mode = "auto"
    /\ with_tools
    /\ \E i, j \in 1..Len(messages) :
         /\ messages[i].role = "tool"
         /\ messages[j].role = "assistant"
         /\ "tool_calls" \in DOMAIN messages[j]
         /\ messages[j].tool_calls # <<>>
         /\ Len(messages[j].tool_calls[1]) = 2

\* C26: no streaming event handed to the consumer holds a fragment of a
\* tool_code block, neither of its tags nor of what stands between them,
\* however the provider cuts the answer into deltas.
C26_NoToolCodeStreamed ==
    \A i \in 1..Len(delivered) :
        \A j \in 1..Len(delivered[i]) :
            delivered[i][j] \notin {"<to", "ol", "_code>", "</tool_", "code>", ToolJson,
                                    "read a.py"}

\* C27: when the stream is over, the contents of the streaming events, put
\* together in the order of delivery, are the content of the done message,
\* tool_code blocks and leading and trailing blanks aside.
C27_StreamedTextIsDoneContent ==
    pc = "streamed" =>
        LET RECURSIVE Concat(_)
            Concat(chunks) == IF chunks = <<>> THEN <<>>
                              ELSE Head(chunks) \o Concat(Tail(chunks))
        IN  StripSpace(RemoveSpans(Concat(delivered)))
              = StripSpace(RemoveSpans(done_message.content))

\* C28: the ids _next_id returns on one Transport are strictly increasing in
\* the order of allocation, and no two request lines written to the child's
\* stdin carry the same id, whatever the interleaving of the callers.
C28_RequestIdsNeverReused ==
    /\ \A i, j \in 1..Len(allocated) : i < j => allocated[i] < allocated[j]
    /\ \A i, j \in 1..Len(stdin) :
           (i # j /\ stdin[i].id # None /\ stdin[j].id # None) =>
               stdin[i].id # stdin[j].id

\* C28, the case: two callers are in flight at the same time, each with its
\* own id, and their request lines were written in the opposite order of
\* their ids
C28_ConcurrentCallersInFlight ==
    /\ callers["t1"].pc = "read"
    /\ callers["t2"].pc = "read"
    /\ callers["t1"].req_id # callers["t2"].req_id
    /\ \E i \in 1..Len(stdin) - 1 :
           /\ stdin[i].id # None
           /\ stdin[i + 1].id # None
           /\ stdin[i].id[1] > stdin[i + 1].id[1]

\* C29 (as stated): with two calls in flight on one Transport whose server
\* answers both, no reply is read and discarded by a caller other than the
\* one whose request it answers.
C29_NoReplyDiscarded ==
    \A i \in 1..Len(dropped) : dropped[i].line.method # None

\* C30 (as stated): the notifications read from the tool server while a call
\* is pending are passed, in the order of arrival, to the notification
\* handler.
C30_NotificationsHandled ==
    LET Notes == SelectSeq(dropped, LAMBDA d : d.line.id = None)
    IN  handled = [i \in 1..Len(Notes) |-> Notes[i].line]

\* C31 (as stated): a call that was waiting for its reply when the tool
\* server exited fails with a transport error that carries what the server
\* left on its stderr, and a call made on the Transport after the server has
\* exited fails without a line sent and without a result.
C31_PendingCallFailsWithStderr ==
    \A t \in Threads :
        /\ (callers[t].error # None /\ callers[t].error[1].kind = "RuntimeError") =>
               callers[t].error[1].stderr = server.written
        /\ (callers[t].error # None) => callers[t].result = None

\* C31, what holds of a call made after the server has exited: it ends with
\* an error and no result, and its request is not on the child's stdin
C31_LaterCallsFail ==
    \A t \in Threads :
        (callers[t].error # None /\ callers[t].error[1].kind = "BrokenPipeError") =>
            /\ callers[t].result = None
            /\ \A i \in 1..Len(stdin) : stdin[i].id # Some(callers[t].req_id)

\* C31, the case of a later call: the server exited while a call waited, that
\* call failed with the server's stderr, and a call made afterwards failed
C31_DeadThenCalledAgain ==
    \E t, u \in Threads :
        /\ callers[t].error = Some(ProcessExited(StderrText))
        /\ callers[u].error = Some(BrokenPipe)

\* C32 (as stated): every event a turn hands to its consumer has one line of
\* its own in the session log, the cancellation error included.
C32_EveryEventLogged ==
    [i \in 1..Len(emitted) |-> LogEntry(emitted[i])]
        = SelectSeq(logged, LAMBDA l : l.type # "user_msg")

\* C32, what holds: the events of _process_impl have one log line each, in
\* the order of delivery
C32_ImplEventsLogged ==
    [i \in 1..Len(SelectSeq(emitted, LAMBDA e : e # CancelEvent)) |->
        LogEntry(SelectSeq(emitted, LAMBDA e : e # CancelEvent)[i])]
        = SelectSeq(logged, LAMBDA l : l.type # "user_msg")

\* C33 (as stated): in PLAN mode an ask_user call with reason plan_approval
\* of a role that is not autonomous, in a turn that is not aborted, is asked, with a question event, as long
\* as the turn has asked fewer than two questions; a question ends the turn
\* that asks it, so the turn of such a call has asked none, whatever earlier
\* turns asked.
C33_QuestionLimitPerTurn ==
    [][(/\ pc = "dispatch"
        /\ pc' # "dispatch"
        /\ ~abort_flag
        /\ tc.name = "ask_user"
        /\ tc.reason = "plan_approval"
        /\ session_mode = PLAN
        /\ autonomy_level # "autonomous") =>
           \E i \in 1..Len(emitted') : emitted'[i].type = "question"]_vars

\* C33, what holds: such a call is asked while fewer than two ask_user calls
\* have come as far as the limit since the session was created, and is
\* refused from then on
C33_QuestionLimitPerSession ==
    [][(/\ pc = "dispatch"
        /\ pc' # "dispatch"
        /\ ~abort_flag
        /\ tc.name = "ask_user"
        /\ tc.reason = "plan_approval"
        /\ session_mode = PLAN
        /\ autonomy_level # "autonomous") =>
           ((\E i \in 1..Len(emitted') : emitted'[i].type = "question")
               <=> ask_user_count < max_ask_user_per_task)]_vars

HistoryKeptUntilSent ==
    (pc \in {"round", "call", "failover", "switch"} /\ pc' # "done") =>
        history' = history

\* C35 (as stated): when an assistant message received in EXECUTE mode holds
\* an interrogative phrase and the turn is not aborted, no question event is
\* emitted, the rebuke is appended to the history and is its last message
\* until the Gateway has answered the next round, and the turn goes on to
\* that round.
C35_RebukeThenNextRound ==
    [][/\ (/\ pc = "detect"
           /\ pc' # "detect"
           /\ DetectedPattern(response_msg.content)
           /\ session_mode = EXECUTE
           /\ ~abort_flag /\ ~abort_flag') =>
              /\ pc' = "rebuke"
              /\ \A i \in 1..Len(emitted') : emitted'[i].type # "question"
       /\ (pc = "rebuke" /\ pc' # "rebuke" /\ ~abort_flag /\ ~abort_flag') =>
              /\ history'[Len(history')] = RebukeMsg
              /\ \A i \in 1..Len(emitted') : emitted'[i].type # "question"
              /\ waiting_tool_id' = NoId
              /\ pc' = "round"
       /\ HistoryKeptUntilSent]_vars

\* C35 (amended): the same, the turn going on to another round unless the
\* round of the message was the last of the MaxRounds rounds of the turn, in
\* which case the turn ends with the rebuke as the last message of the
\* history.
C35_RebukeThenNextRoundIfAny ==
    [][/\ (/\ pc = "detect"
           /\ pc' # "detect"
           /\ DetectedPattern(response_msg.content)
           /\ session_mode = EXECUTE
           /\ ~abort_flag /\ ~abort_flag') =>
              /\ pc' = "rebuke"
              /\ \A i \in 1..Len(emitted') : emitted'[i].type # "question"
       /\ (pc = "rebuke" /\ pc' # "rebuke" /\ ~abort_flag /\ ~abort_flag') =>
              /\ history'[Len(history')] = RebukeMsg
              /\ \A i \in 1..Len(emitted') : emitted'[i].type # "question"
              /\ waiting_tool_id' = NoId
              /\ pc' = IF round < MaxRounds THEN "round" ELSE "done"
       /\ HistoryKeptUntilSent]_vars

\* C35, the case: after a rebuke the Gateway is about to be called for the
\* next round with the rebuke as the last message of the history
C35_RebukedBeforeNextCall ==
    /\ pc = "call"
    /\ session_mode = EXECUTE
    /\ round > 1
    /\ history[Len(history)] = RebukeMsg
    /\ history[Len(history) - 1].role = "assistant"

\* a user input was given after the last assistant message of h that holds an
\* interrogative phrase: a user message, or the answer to an ask_user call
InputSinceTextQuestion(h) ==
    \E k \in 1..Len(h) :
        /\ h[k].role = "assistant"
        /\ DetectedPattern(h[k].content)
        /\ \A j \in k + 1..Len(h) :
               ~(h[j].role = "assistant" /\ DetectedPattern(h[j].content))
        /\ \E j \in k + 1..Len(h) :
               \/ h[j].role = "user"
               \/ /\ h[j].role = "tool"
                  /\ h[j].name = "ask_user"
                  /\ \E inp \in UserInputs \cup {"yes"} : h[j].content = <<inp>>

\* C36 (as stated): a pending text question is consumed by the very next
\* user input, which moves the session to EXECUTE when it is an approval word
\* and clears the flag either way; and an input moves the session to EXECUTE
\* as the approval of a text question only when no other input has been
\* given since the question.
C36_TextQuestionConsumedByNextInput ==
    [][(pc = "idle" /\ pc' # "idle") =>
          /\ pending_text_question' = FALSE
          /\ (waiting_tool_id = NoId /\ session_mode = PLAN /\ session_mode' = EXECUTE) =>
                ~InputSinceTextQuestion(history)]_vars

\* C36, the second part alone: an input approves a text question only when
\* no other input has been given since the question
C36_NoStaleTextApproval ==
    [][(/\ pc = "idle" /\ pc' # "idle"
        /\ waiting_tool_id = NoId /\ session_mode = PLAN /\ session_mode' = EXECUTE) =>
          ~InputSinceTextQuestion(history)]_vars

\* C36, what holds: an input that is not the answer to a pending question
\* consumes the flag
C36_NewInputConsumesFlag ==
    [][(pc = "idle" /\ pc' # "idle" /\ waiting_tool_id = NoId) =>
          /\ pending_text_question' = FALSE
          /\ (session_mode' # session_mode) =>
                /\ pending_text_question
                /\ StripLower(user_input') \in approval_responses_text
                /\ session_mode' = EXECUTE]_vars

\* the user messages of a history
UserMessages(h) == Cardinality({i \in 1..Len(h) : h[i].role = "user"})

\* C37 (as stated): on every path of an input that is not the answer to a
\* pending question, the input is appended to the history as a user message
\* exactly once: the step that brings the turn to its first reasoning round
\* appends one user message, and the steps before it append none.
C37_InputAppendedOnce ==
    [][((pc = "idle" /\ waiting_tool_id = NoId) \/ pc \in {"text_banner", "append_user"}) =>
          /\ UserMessages(history') - UserMessages(history)
                = IF pc' = "round" THEN 1 ELSE 0
          /\ pc' = "round" => history'[Len(history')] = UserMsg(<<user_input'>>)]_vars

\* C37, what holds: the same on the paths of an input that does not approve
\* a text-based question
C37_InputAppendedOnceUnlessTextApproval ==
    [][((pc = "idle" /\ waiting_tool_id = NoId) \/ pc = "append_user") =>
          /\ UserMessages(history') - UserMessages(history)
                = IF pc' = "round" THEN 1 ELSE 0
          /\ pc' = "round" => history'[Len(history')] = UserMsg(<<user_input'>>)]_vars

\* the tool-result messages of h after position k that carry the id
ResultsAfter(h, k, id) ==
    Cardinality({j \in k + 1..Len(h) : h[j].role = "tool" /\ h[j].tool_call_id = id})

\* C38 (as stated): when the turn driver is about to call the Gateway, in a
\* session whose turns were never aborted, every tool call of every assistant
\* message of the history has exactly one tool-result message with its id
\* after it.
C38_NoCallUnanswered ==
    (pc = "call" /\ can_abort) =>
        \A k \in 1..Len(history) :
            history[k].role = "assistant" =>
                \A c \in 1..Len(history[k].tool_calls) :
                    ResultsAfter(history, k, history[k].tool_calls[c].id) = 1

\* C38, what holds: no tool call has more than one tool-result message, and
\* the calls of an assistant message that asked no question and drew no
\* rebuke are answered before the next call of the Gateway
C38_NoCallAnsweredTwice ==
    \A k \in 1..Len(history) :
        history[k].role = "assistant" =>
            \A c \in 1..Len(history[k].tool_calls) :
                ResultsAfter(history, k, history[k].tool_calls[c].id) <= 1

\* C39: whenever a question is pending (waiting_tool_id is set) the session
\* mode is PLAN, the remembered reason is plan_approval and the turn that
\* asked is over (the session is at rest, or a later turn is at its resume
\* branch before the answer is appended); and in every reasoning round, from
\* its start to the dispatch of its tool calls, no question is pending.
C39_PendingQuestionShape ==
    /\ waiting_tool_id # NoId =>
          /\ session_mode = PLAN
          /\ question_context = "plan_approval"
          /\ pc \in {"done", "idle", "answer"}
    /\ pc \notin {"done", "idle", "answer"} => waiting_tool_id = NoId

\* C39 (witness): a question is pending and the turn that asked it is over
C39_QuestionPendingAtRest ==
    /\ waiting_tool_id # NoId
    /\ pc = "done"
    /\ last_event.type = "question"
    /\ ~abort_flag

\* C39 (witness of the second half): a round starts after a question was
\* answered earlier in the session
C39_RoundAfterAnswer ==
    /\ pc = "round"
    /\ \E k \in 1..Len(history) : history[k].role = "tool" /\ history[k].name = "ask_user"
                                   /\ history[k].content \in {<<inp>> : inp \in UserInputs}

\* the positions of the driver inside a delegation, from the events that open
\* the todo item to the return of _run_sub_agent_loop
DelegationPcs ==
    {"deleg", "attempt", "dev_iter", "dev_call", "dev_parse", "dev_tool", "dev_exec",
     "review", "rev_call", "rev_verdict", "rev_feedback", "deleg_done"}

\* the events hold a todo_update with status completed or failed
ClosesTodo(evs) ==
    \E i \in 1..Len(evs) : /\ evs[i].type = "todo_update"
                           /\ evs[i].tag \in {"completed", "failed"}

\* C40 (as stated): the todo item that a delegation opens (todo_add, then
\* todo_update in_progress) is closed in the same turn unless the turn is
\* aborted: the step in which the driver leaves the delegation emits a
\* todo_update with status completed or failed, also when the delegation
\* ends with an error.
C40_TodoClosed ==
    [][(pc \in DelegationPcs /\ pc' \notin DelegationPcs /\ ~abort_flag /\ ~abort_flag') =>
          ClosesTodo(emitted')]_vars

\* C40 (what holds): with a developer role configured the todo item is
\* closed when the delegation ends, also after a Developer Error or a
\* Reviewer Error
C40_TodoClosedWithDeveloper ==
    [][(pc \in DelegationPcs /\ pc' \notin DelegationPcs /\ ~abort_flag /\ ~abort_flag'
          /\ "developer" \in roles) =>
          ClosesTodo(emitted')]_vars

\* C40 (reached): a delegation that met a Developer Error or a Reviewer Error
\* closes its todo item as failed
C40_ClosedAfterError ==
    /\ pc = "append"
    /\ tc.name = "delegate_task"
    /\ ~abort_flag
    /\ ClosesTodo(emitted)
    /\ task_result.status # "success"

====
